---------------------------- MODULE Spec2Model ----------------------------
(***************************************************************************)
(* A model of the pcie-tlp crate: the adapter front end (PciAdapter), the  *)
(* bridge task (PciSimBridge), the lane between them and the reference     *)
(* simulated device (PciTestDevice).                                       *)
(*                                                                         *)
(* Threads are modelled as interleaved atomic steps:                       *)
(*   - every API call is made by a caller of its own (a fresh reply        *)
(*     channel per call, as unbounded() in the source), which then blocks  *)
(*     on its reply channel;                                               *)
(*   - the bridge takes one message per step from the command queue or     *)
(*     from the lane (one iteration of the select! loop);                  *)
(*   - the device takes one TLP per step from the lane.                    *)
(* Channels are crossbeam unbounded channels: ordered, a send fails once   *)
(* the receiving side is dropped, a receive fails once the channel is      *)
(* empty and every sender is dropped.                                      *)
(***************************************************************************)
EXTENDS Integers, Sequences, FiniteSets, TLC

(***************************************************************************)
(* Bounds of the model.                                                    *)
(***************************************************************************)
\* API calls made over one run of the concurrent specification
MaxCalls == 2
\* API calls made over one run of the sequential MMIO specification
MaxMmioCalls == 2
\* API calls made over one run of the specification with fairness
MaxLiveCalls == 2

(***************************************************************************)
(* Program constants.                                                      *)
(***************************************************************************)
\* config_tag is a u8: the values a tag can take
TagMod == 256
\* bar_mmio_read rejects buffers longer than this
MaxMmioLen == 8
\* the byte the bar test's buffers are initialised with
InitByte == 0
\* the byte a rejected MMIO read fills the buffer with
FillByte == 255

(***************************************************************************)
(* Values wider than 16 bits are kept as their little-endian bytes: a u32  *)
(* (a DWORD) is a sequence of 4 bytes, a u64 (an address, a length) one of *)
(* 8, the least significant byte first.                                    *)
(***************************************************************************)
\* the bytes of a number n < 2^31 as a value of len bytes
RECURSIVE Bytes(_, _)
Bytes(n, len) == IF len = 0 THEN <<>> ELSE <<n % 256>> \o Bytes(n \div 256, len - 1)
Dword(n) == Bytes(n, 4)

\* payload DWORD the reference device answers every memory read with: 0x12345678
MemPattern == <<120, 86, 52, 18>>
\* vendor/device id register of the reference device: 0x5678_1234
VendorDeviceId == <<52, 18, 120, 86>>
\* the region the bar test registers: start 0x1_7000_0000, length 0x10_0000
TestRegionStart == <<0, 0, 0, 112, 1, 0, 0, 0>>
TestRegionLength == <<0, 0, 16, 0, 0, 0, 0, 0>>

(***************************************************************************)
(* Integer helpers (fixed-width arithmetic of the source).                 *)
(***************************************************************************)
RECURSIVE BitAnd(_, _)
BitAnd(a, b) ==
    IF a = 0 \/ b = 0 THEN 0
    ELSE (a % 2) * (b % 2) + 2 * BitAnd(a \div 2, b \div 2)

RECURSIVE BitOr(_, _)
BitOr(a, b) ==
    IF a = 0 THEN b
    ELSE IF b = 0 THEN a
    ELSE (IF a % 2 = 1 \/ b % 2 = 1 THEN 1 ELSE 0) + 2 * BitOr(a \div 2, b \div 2)

\* u8 left shift by an in-range amount: bits shifted out are lost
Shl8(a, n) == (a * (2 ^ n)) % 256
Not8(a) == 255 - a

\* bytewise and, or, not of two values of the same width
AndBytes(a, b) == [i \in 1..Len(a) |-> BitAnd(a[i], b[i])]
OrBytes(a, b) == [i \in 1..Len(a) |-> BitOr(a[i], b[i])]
NotBytes(a) == [i \in 1..Len(a) |-> Not8(a[i])]

\* a u32 shifted left by whole bytes (n < 4) and right by bits (n < 8)
ShlBytes(a, n) == [i \in 1..Len(a) |-> IF i > n THEN a[i - n] ELSE 0]
ShrBits(a, n) ==
    [i \in 1..Len(a) |->
        (a[i] \div (2 ^ n))
        + (IF i < Len(a) THEN (a[i + 1] % (2 ^ n)) * (2 ^ (8 - n)) ELSE 0)]

\* the sum of two values of the same width, wrapping at the width
RECURSIVE AddCarry(_, _, _)
AddCarry(a, b, carry) ==
    IF a = <<>> THEN <<>>
    ELSE <<(Head(a) + Head(b) + carry) % 256>>
         \o AddCarry(Tail(a), Tail(b), (Head(a) + Head(b) + carry) \div 256)
AddBytes(a, b) == AddCarry(a, b, 0)

\* a < b for two values of the same width
RECURSIVE LessBytes(_, _)
LessBytes(a, b) ==
    IF a = <<>> THEN FALSE
    ELSE LET n == Len(a)
         IN  \/ a[n] < b[n]
             \/ a[n] = b[n] /\ LessBytes(SubSeq(a, 1, n - 1), SubSeq(b, 1, n - 1))

\* u8::trailing_zeros and u8::leading_zeros
trailing_zeros(b) ==
    IF b = 0 THEN 8 ELSE CHOOSE n \in 0..7 : b % (2 ^ (n + 1)) # 0 /\ b % (2 ^ n) = 0
leading_zeros(b) ==
    IF b = 0 THEN 8 ELSE CHOOSE n \in 0..7 : b < 2 ^ (8 - n) /\ b >= 2 ^ (7 - n)

\* u32::to_le_bytes, u32::to_be_bytes as sequences of bytes
to_le_bytes(v) == v
to_be_bytes(v) == [i \in 1..4 |-> v[5 - i]]

\* s[from..to) of the source (0-based, half-open) as a sequence
Slice(s, from, to) == [i \in 1..(to - from) |-> s[from + i]]

Fill(n, b) == [i \in 1..n |-> b]


(***************************************************************************)
(* TLP model and builder (lib.rs).  A TLP is a record; the fields of the   *)
(* per-type descriptor that a type does not carry are 0.  The field origin *)
(* is a history field: the index of the API call the TLP was built for     *)
(* (the device copies it to its completion).  No operation reads it.       *)
(***************************************************************************)
\* Tlp::default / TlpHeader::default with the packet type set
with_type(ptype, requester, completer, tag, reg, addr, lower_address, origin) ==
    [ type |-> ptype, requester |-> requester, completer |-> completer,
      tag |-> tag, reg |-> reg, addr |-> addr, lower_address |-> lower_address,
      trafic_class |-> "TC0", relax_ordering |-> FALSE, no_snoop |-> FALSE,
      byte_enable |-> 0, length |-> 0, has_data |-> FALSE, data |-> <<>>,
      origin |-> origin ]

\* TlpBuilder::length
length(t, len) == [t EXCEPT !.length = len]

\* a mutation of data: the payload is set and the length left as it was
data_KeepLength(t, d) == [t EXCEPT !.has_data = TRUE, !.data = d]

\* TlpBuilder::data: the payload replaces the old one and sets the length
data(t, d) == length([t EXCEPT !.has_data = TRUE, !.data = d], Len(d) % 65536)

\* TlpBuilder::byte_enable
byte_enable(t, be) == [t EXCEPT !.byte_enable = be]

\* TlpBuilder::config0_read: the length stays that of the default header
config0_read(requester, completer, tag, reg, origin) ==
    with_type("Config0Read", requester, completer, tag, reg, Bytes(0, 8), 0, origin)

\* TlpBuilder::config0_write
config0_write(requester, completer, tag, reg, origin) ==
    length(with_type("Config0Write", requester, completer, tag, reg, Bytes(0, 8), 0,
                     origin), 1)

\* TlpBuilder::memory_read64
memory_read64(requester, tag, addr, origin) ==
    with_type("MemoryRead64", requester, 0, tag, 0, addr, 0, origin)

\* TlpBuilder::completion_data
completion_data(requester, completer, tag, lower_address, origin) ==
    with_type("CompletionData", requester, completer, tag, 0, Bytes(0, 8),
              lower_address, origin)

\* the packet types TlpHeader::transaction_id is implemented for
HasTransactionId(t) ==
    t.type \in {"Config0Read", "Config0Write", "CompletionData", "Completion"}

\* a mutation of transaction_id: the tag is left out of the key
transaction_id_NoTag(t) ==
    IF HasTransactionId(t) THEN t.requester * 65536 ELSE "panic"

\* TlpHeader::transaction_id: tag | (requester << 16) (the tag is a u8) for
\* the type 0 configuration requests and the completions; for every other
\* packet type the match reaches unimplemented!() and the call panics
transaction_id(t) ==
    IF HasTransactionId(t) THEN t.tag + t.requester * 65536 ELSE "panic"

\* Tlp::is_valid, the DW BE rule check: the condition under which it
\* returns false
BeRuleBroken(t) ==
    \/ (t.length = 1 /\ BitAnd(t.byte_enable, 15) = 0)
    \/ (t.length = 1 /\ BitAnd(t.byte_enable, 240) # 0)
    \/ (t.length > 1 /\ BitAnd(t.byte_enable, 240) = 0)

\* the packet types the match of Tlp::is_valid has an arm for
ConfigTypes == {"Config0Read", "Config0Write", "Config1Read", "Config1Write"}

\* Tlp::is_valid, the rule of PCIe 3.0 2.2.7 for configuration requests:
\* the condition under which it returns false
ConfigRuleBroken(t) ==
    \/ t.trafic_class # "TC0"
    \/ t.no_snoop
    \/ t.relax_ordering
    \/ t.length # 1

\* Tlp::is_valid: "true", "false", or "panic" for the unimplemented!() arm
\* every other packet type reaches once the DW BE rule has passed
is_valid(t) ==
    IF BeRuleBroken(t) THEN "false"
    ELSE IF t.type \in ConfigTypes
         THEN IF ConfigRuleBroken(t) THEN "false" ELSE "true"
         ELSE "panic"

(***************************************************************************)
(* Bridge: pure parts of PciSimBridge (adapter.rs).                        *)
(***************************************************************************)
\* make_bdf: (bus << 8) | ((function & 7) | (device << 5))
make_bdf(bus, device, function) ==
    BitOr(bus * 256, BitOr(function % 8, device * 32))

\* the bridge's own BDF, set in PciAdapter::start
BridgeBdf == make_bdf(0, 2, 0)
\* the completer of every type 0 configuration request
CompleterBdf == make_bdf(0, 3, 0)

\* next_transaction_id, given the tag next_config_tag returned
next_transaction_id(tag) == tag + BridgeBdf * 65536

\* handle_adapter_msg, ConfigRead: the request TLP
ConfigReadTlp(trans_id, idx, origin) ==
    config0_read(BridgeBdf, CompleterBdf, trans_id % 256, idx % 65536, origin)

\* handle_adapter_msg, ConfigWrite: a shift amount is not less than the
\* width of the value shifted (a u8 by len or by offset, a u32 by
\* offset * 8): the shift panics in a build with overflow checks, and
\* without them the amount is taken modulo the width
ConfigWriteShiftOverflows(len, offset) == len >= 8 \/ offset >= 4

\* handle_adapter_msg, ConfigWrite: (!(u8::MAX << len)) << offset
ConfigWriteByteEnable(len, offset) == Shl8(Not8(Shl8(255, len % 8)), offset % 8)

\* a mutation of ConfigWriteValue: the value is not shifted to its byte lane
ConfigWriteValue_Zero(value, offset) == Dword(0)

\* handle_adapter_msg, ConfigWrite: data << (offset * 8)
ConfigWriteValue(value, offset) == ShlBytes(value, offset % 4)

\* handle_adapter_msg, ConfigWrite: the request TLP
ConfigWriteTlp(trans_id, cd, origin) ==
    data(byte_enable(config0_write(BridgeBdf, CompleterBdf, trans_id % 256,
                                   cd.reg_idx % 65536, origin),
                     ConfigWriteByteEnable(cd.len, cd.offset)),
         <<ConfigWriteValue(cd.data, cd.offset)>>)

\* handle_adapter_msg, MemoryRead: (0xff << (addr & 3)) & 0xf
MemoryReadByteEnable(addr) == BitAnd(Shl8(255, addr[1] % 4), 15)

\* handle_adapter_msg, MemoryRead: the length in DWORDs, (size + 3) >> 2
MemoryReadLength(size) == (size + 3) \div 4

\* handle_adapter_msg, MemoryRead: the request TLP
MemoryReadTlp(trans_id, addr, size, origin) ==
    length(byte_enable(memory_read64(BridgeBdf, trans_id % 256, addr, origin),
                       MemoryReadByteEnable(addr)),
           MemoryReadLength(size) % 65536)

\* handle_transaction_msg, ReadMemory: the bytes taken from DWORD i (1-based)
\* of a payload of n DWORDs
ReadMemoryPart(t, i, n) ==
    LET bytes == to_be_bytes(t.data[i])
    IN  IF i = 1 THEN Slice(bytes, t.lower_address % 4, 4)
        ELSE IF i = n
             THEN Slice(bytes, 0,
                        4 - leading_zeros(BitOr(BitAnd(t.byte_enable, 240), 8)))
             ELSE bytes

RECURSIVE ReadMemoryFrom(_, _, _)
ReadMemoryFrom(t, i, n) ==
    IF i > n THEN <<>> ELSE ReadMemoryPart(t, i, n) \o ReadMemoryFrom(t, i + 1, n)

\* handle_transaction_msg, ReadMemory: the byte vector sent to the caller
ReadMemoryBytes(t) == ReadMemoryFrom(t, 1, Len(t.data))

(***************************************************************************)
(* Reference device: the configuration space it holds (PciConfiguration of *)
(* the pci crate, as PciTestDevice::new sets it up) and the pure parts of  *)
(* PciTestDevice::run (device.rs).                                         *)
(***************************************************************************)
\* the configuration registers the model keeps: register 0 and the six BARs
ConfigRegs == {0} \cup (4..9)

\* the registers after PciTestDevice::new: vendor 0x1234, device 0x5678,
\* BAR0 a 64-bit non-prefetchable memory BAR, BAR2 an I/O BAR
InitRegisters ==
    [r \in ConfigRegs |->
        CASE r = 0 -> VendorDeviceId
          [] r = 4 -> Dword(4)
          [] r = 6 -> Dword(1)
          [] OTHER -> Dword(0)]

BAR0_REG == 4
NUM_BAR_REGS == 6
BarRegs == BAR0_REG..(BAR0_REG + NUM_BAR_REGS - 1)

\* u32::MAX
AllOnes == <<255, 255, 255, 255>>

\* a mutation of WritableBits: only the address bits that encode the size
\* of a BAR can be written
WritableBits_SizeBits ==
    [r \in ConfigRegs |->
        CASE r = 4 -> <<0, 0, 240, 255>>
          [] r = 5 -> <<255, 255, 255, 255>>
          [] r = 6 -> <<0, 255, 255, 255>>
          [] OTHER -> Dword(0)]

\* the bits of each register a configuration write can change: the address
\* bits of a BAR (0xffff_fff0 for the memory BAR0, all of its upper half,
\* 0xffff_fffc for the I/O BAR2); the type bits of a BAR, register 0 and the
\* BAR registers that are not implemented are read-only
WritableBits ==
    [r \in ConfigRegs |->
        CASE r = 4 -> <<240, 255, 255, 255>>
          [] r = 5 -> <<255, 255, 255, 255>>
          [] r = 6 -> <<252, 255, 255, 255>>
          [] OTHER -> Dword(0)]

\* the address bits of each BAR register that read back as 1 after all
\* ones were written to it, which encode the size of the BAR: BAR0 is 1 MiB
\* (0xfff0_0000, upper half 0xffff_ffff), BAR2 is 256 bytes (0xffff_ff00)
BarSizeBits ==
    [r \in ConfigRegs |->
        CASE r = 4 -> <<0, 0, 240, 255>>
          [] r = 5 -> <<255, 255, 255, 255>>
          [] r = 6 -> <<0, 255, 255, 255>>
          [] OTHER -> Dword(0)]

\* PciConfiguration::read_config_register
read_config_register(regs, reg) ==
    IF reg \in DOMAIN regs THEN regs[reg] ELSE <<255, 255, 255, 255>>

\* the value of a register after the writable bits of the bytes offset ..
\* offset + Len(bytes) - 1 are replaced by those of bytes that are in mask
MaskedWrite(old, writable, mask, offset, bytes) ==
    [i \in 1..4 |->
        IF i > offset /\ i <= offset + Len(bytes)
        THEN BitOr(BitAnd(old[i], Not8(writable[i])),
                   BitAnd(bytes[i - offset], mask[i]))
        ELSE old[i]]

\* the bits of bytes a write to register reg takes: the writable bits, and
\* of all ones written to a BAR register (the sizing write) those among
\* them that encode the size
WriteMask(reg, bytes) ==
    IF reg \in BarRegs /\ bytes = AllOnes
    THEN [i \in 1..4 |-> BitAnd(WritableBits[reg][i], BarSizeBits[reg][i])]
    ELSE WritableBits[reg]

\* PciConfiguration::write_config_register: writes of 1, 2 (at an even
\* offset) and 4 bytes that fit the register are applied under the
\* register's writable bits, every other write is ignored
write_config_register(regs, reg, offset, bytes) ==
    LET len == Len(bytes)
        applies == /\ reg \in DOMAIN regs
                   /\ offset + len <= 4
                   /\ \/ len = 1
                      \/ len = 2 /\ offset \in {0, 2}
                      \/ len = 4
    IN  IF applies
        THEN [regs EXCEPT ![reg] = MaskedWrite(regs[reg], WritableBits[reg],
                                               WriteMask(reg, bytes), offset, bytes)]
        ELSE regs

\* PciTestDevice::run, Config0Write: offset = be.trailing_zeros()
DeviceWriteOffset(t) == trailing_zeros(t.byte_enable)

\* PciTestDevice::run, Config0Write: len = 8 - be.leading_zeros() - offset
DeviceWriteLen(t) == 8 - leading_zeros(t.byte_enable) - DeviceWriteOffset(t)

\* PciTestDevice::run, Config0Write: the subtraction underflows, or the slice
\* [0..len] leaves the four bytes of the DWORD: the device thread panics
DeviceWritePanics(t) == DeviceWriteLen(t) < 0 \/ DeviceWriteLen(t) > 4

\* a mutation of DeviceWriteData: the bytes are taken in big-endian order
DeviceWriteData_BigEndian(t) ==
    Slice(to_be_bytes(ShrBits(t.data[1], DeviceWriteOffset(t))), 0, DeviceWriteLen(t))

\* PciTestDevice::run, Config0Write: &u32::to_le_bytes(value >> offset)[0..len]
DeviceWriteData(t) ==
    Slice(to_le_bytes(ShrBits(t.data[1], DeviceWriteOffset(t))), 0, DeviceWriteLen(t))

\* PciTestDevice::run, Config0Read: the completion
Config0ReadCompletion(t, value) ==
    data(completion_data(t.requester, t.completer, t.tag, 0, t.origin), <<value>>)

\* PciTestDevice::run, Config0Write: the completion echoes the DWORD written
Config0WriteCompletion(t) ==
    data(completion_data(t.requester, t.completer, t.tag, 0, t.origin), <<t.data[1]>>)

\* PciTestDevice::run, MemoryRead64:
\* (addr as u8 & 0b1111100) | ((be & 0xf).trailing_zeros() % 4)
MemoryReadLowerAddress(t) ==
    BitOr(BitAnd(t.addr[1], 124), trailing_zeros(BitAnd(t.byte_enable, 15)) % 4)

\* PciTestDevice::run, MemoryRead64: the completion
MemoryReadCompletion(t) ==
    data(byte_enable(completion_data(t.requester, 0, t.tag,
                                     MemoryReadLowerAddress(t), t.origin),
                     IF t.length = 1 THEN 15 ELSE 255),
         Fill(t.length, MemPattern))

\* the byte at address addr of the device's memory as the reference device
\* declares it: the big-endian bytes of repeated 0x12345678 DWORDs
DeviceMemoryByte(addr) == to_be_bytes(MemPattern)[(addr[1] % 4) + 1]

(***************************************************************************)
(* State.                                                                  *)
(***************************************************************************)
VARIABLES
    calls,        \* the API calls made so far, in the order they were made
    caller,       \* caller[i]: where the caller of call i is, and its result
    reply,        \* reply[i]: the reply channel call i created with unbounded()
    hist,         \* hist[i]: history of call i (read by no operation)
    cmdq,         \* the command queue PciAdapter.tx -> PciSimBridge.cmd_rx
    lane_req,     \* the lane, bridge to device
    lane_cpl,     \* the lane, device to bridge
    config_tag,   \* PciSimBridge.config_tag
    store,        \* PciSimBridge.store: transaction id -> Reaction
    bridge,       \* the bridge thread: running, exiting, panicking, done, panicked
    registers,    \* the configuration registers of the device
                  \* (PciTestDevice.config)
    device,       \* the device thread: running, returned, panicked, stalled
    mmio_regions, \* PciAdapter.mmio_regions
    adapter,      \* the adapter handle: live, joining, joined, join_panicked
    stops,        \* the stop() calls made so far and how each ended
    task,         \* the detect_bar, scan_bar or allocate_bars call in progress
    probe,        \* the input of a scenario: the TLP given to Tlp::is_valid
                  \* and the outcome, or the sized values of the BAR
                  \* registers of the device the adapter is started with
    strays        \* history: the TLPs no request asked for that the bridge took
                  \* from the lane, and what became of each

vars == <<calls, caller, reply, hist, cmdq, lane_req, lane_cpl, config_tag, store,
          bridge, registers, device, mmio_regions, adapter, stops, task, probe,
          strays>>

\* no detect_bar or allocate_bars call has been made: the locals of
\* detect_bar (pre, ret), scan_bar (bar_reg, lsb_size, regions) and
\* allocate_bars (the loop index k, ranges, the result) and, as history,
\* the register detect_bar is probing as it was when detect_bar was called
\* (before), the registers each detect_bar left changed (changed) and the
\* BAR writes of allocate_bars; and of free_bars, as history, the calls made
\* (free_calls), for each call the regions it found registered, the ranges
\* it gave back to the system allocator and the regions it left registered
\* (freed) and the target architecture of the build (arch, not known before
\* the first free_bars); and whether a size computed by scan_bar overflowed
\* and wrapped (wrapped: the build has no overflow checks)
IdleTask ==
    [op |-> "idle", pc |-> "idle", det_reg |-> 0, det_step |-> 0,
     pre |-> Dword(0), ret |-> Dword(0), before |-> Dword(0), changed |-> {},
     bar_reg |-> 0, lsb_size |-> Dword(0), regions |-> <<>>,
     k |-> 0, ranges |-> <<>>, result |-> "none", err_length |-> Bytes(0, 8),
     bar_writes |-> <<>>, free_calls |-> 0, freed |-> <<>>, arch |-> "none",
     wrapped |-> FALSE]

\* no TLP has been given to Tlp::is_valid
NoProbe == [tlp |-> with_type("Unknown", 0, 0, 0, 0, Bytes(0, 8), 0, 0), result |-> "none"]

\* PciAdapter::start(device): the state right after the adapter is started
\* with a device whose configuration registers are regs
StartedWith(regs) ==
    /\ calls = <<>>
    /\ caller = <<>>
    /\ reply = <<>>
    /\ hist = <<>>
    /\ cmdq = <<>>
    /\ lane_req = <<>>
    /\ lane_cpl = <<>>
    /\ config_tag = 0
    /\ store = [t \in {} |-> 0]
    /\ bridge = "running"
    /\ registers = regs
    /\ device = "running"
    /\ mmio_regions = <<>>
    /\ adapter = "live"
    /\ stops = <<>>
    /\ task = IdleTask
    /\ strays = <<>>

\* PciAdapter::start(Box::new(PciTestDevice::new()))
InitAdapter == StartedWith(InitRegisters)

Init == InitAdapter /\ probe = NoProbe

\* the bridge thread has ended and dropped the PciSimBridge: cmd_rx, the
\* bridge's end of the lane and the store are gone
BridgeGone == bridge \in {"done", "panicked"}

\* the device thread has ended and dropped its end of the lane
DeviceGone == device \in {"returned", "panicked"}

NoTransaction == 0 - 1

(***************************************************************************)
(* Adapter front end: the calling threads (adapter.rs).                    *)
(***************************************************************************)
\* the values of an API call that does not use them
Call(op, reg_idx, offset, bytes, addr, size) ==
    [op |-> op, reg_idx |-> reg_idx, offset |-> offset, bytes |-> bytes,
     addr |-> addr, size |-> size]

\* an AdapterMessage; sender is the index of the call whose reply channel's
\* Sender the message carries (0 for Exit)
AdapterMessage(kind, reg_idx, offset, len, value, addr, size, sender) ==
    [kind |-> kind, reg_idx |-> reg_idx, offset |-> offset, len |-> len,
     data |-> value, addr |-> addr, size |-> size, sender |-> sender]

\* history of a call as it is made: whether it posts a command, whether its
\* address was in a registered region, whether the bridge thread had ended,
\* the calls that had returned; and, filled in later, the transaction id
\* the bridge gave its request, the register value the device read for it,
\* the replies sent on its channel, the position of its request among the
\* requests the device received and of its completion among the completions
\* the bridge received (one entry for each time it was received)
NewHist(call, posts) ==
    [posts |-> posts,
     mapped |-> \E k \in 1..Len(mmio_regions) :
                    /\ ~LessBytes(call.addr, mmio_regions[k].start)
                    /\ LessBytes(call.addr, AddBytes(mmio_regions[k].start,
                                                     mmio_regions[k].length)),
     after_gone |-> BridgeGone,
     returned_before |-> {j \in 1..Len(caller) : caller[j].st = "returned"},
     trans_id |-> NoTransaction,
     dev_value |-> <<>>,
     delivered |-> <<>>,
     dev_seq |-> <<>>,
     cpl_seq |-> <<>>]

\* the number of requests the device has received from the lane, answered
\* or not (every request on the lane is that of a call), and the number of
\* TLPs the bridge has received from the lane: those that answer a call and
\* those that answer none
DevCount(n) ==
    Cardinality(UNION {{<<i, k>> : k \in 1..Len(hist[i].dev_seq)} : i \in 1..n})

CplCount(n) ==
    Cardinality(UNION {{<<i, k>> : k \in 1..Len(hist[i].cpl_seq)} : i \in 1..n})
        + Len(strays)

\* a mutation of CanSend: a send succeeds whatever became of the receiver
CanSend_Always == TRUE

\* Sender::send on the command queue succeeds while cmd_rx is alive
CanSend == ~BridgeGone

\* a call that posts msg and then blocks on its reply channel:
\* self.tx.send(msg).unwrap() panics when the send fails
PostAndWait(call, msg, buf) ==
    /\ calls' = Append(calls, call)
    /\ hist' = Append(hist, NewHist(call, TRUE))
    /\ IF CanSend
       THEN /\ cmdq' = Append(cmdq, msg)
            /\ caller' = Append(caller, [st |-> "waiting", dword |-> Dword(0), buf |-> buf])
            /\ reply' = Append(reply, [msgs |-> <<>>, tx_alive |-> TRUE,
                                       rx_alive |-> TRUE])
       ELSE /\ cmdq' = cmdq
            /\ caller' = Append(caller, [st |-> "send_failed", dword |-> Dword(0),
                                         buf |-> buf])
            /\ reply' = Append(reply, [msgs |-> <<>>, tx_alive |-> FALSE,
                                       rx_alive |-> FALSE])

\* a call that returns without posting anything
ReturnAtOnce(call, buf) ==
    /\ calls' = Append(calls, call)
    /\ hist' = Append(hist, NewHist(call, FALSE))
    /\ caller' = Append(caller, [st |-> "returned", dword |-> Dword(0), buf |-> buf])
    /\ reply' = Append(reply, [msgs |-> <<>>, tx_alive |-> FALSE, rx_alive |-> FALSE])
    /\ cmdq' = cmdq

\* PciAdapter::config_read, up to the blocking receive
config_read(reg_idx) ==
    /\ adapter = "live"
    /\ PostAndWait(Call("config_read", reg_idx, 0, <<>>, Bytes(0, 8), 0),
                   AdapterMessage("ConfigRead", reg_idx, 0, 0, Dword(0), Bytes(0, 8), 0,
                                  Len(calls) + 1),
                   <<>>)
    /\ UNCHANGED <<lane_req, lane_cpl, config_tag, store, bridge, registers, device,
                   mmio_regions, adapter, stops>>

\* PciAdapter::config_write: the bytes folded from the last to the first,
\* bytes = (bytes << 8) | b, in a u32
ConfigWriteFold(bytes) == [i \in 1..4 |-> IF i <= Len(bytes) THEN bytes[i] ELSE 0]

\* PciAdapter::config_write, up to the blocking receive
config_write(reg_idx, offset, bytes) ==
    /\ adapter = "live"
    /\ PostAndWait(Call("config_write", reg_idx, offset, bytes, Bytes(0, 8), 0),
                   AdapterMessage("ConfigWrite", reg_idx, offset, Len(bytes),
                                  ConfigWriteFold(bytes), Bytes(0, 8), 0, Len(calls) + 1),
                   <<>>)
    /\ UNCHANGED <<lane_req, lane_cpl, config_tag, store, bridge, registers, device,
                   mmio_regions, adapter, stops>>

\* PciAdapter::find_region: the regions that contain addr (the first is used)
find_region(addr) ==
    {k \in 1..Len(mmio_regions) :
        /\ ~LessBytes(addr, mmio_regions[k].start)
        /\ LessBytes(addr, AddBytes(mmio_regions[k].start, mmio_regions[k].length))}

\* a mutation of MmioTooLong: the limit is twice what it should be
MmioTooLong_Sixteen(size) == size > 16

\* PciAdapter::bar_mmio_read: data.len() > 8
MmioTooLong(size) == size > MaxMmioLen

\* PciAdapter::bar_mmio_read, up to the blocking receive; the buffer the
\* caller passes holds size bytes InitByte
bar_mmio_read(addr, size) ==
    /\ adapter = "live"
    /\ IF find_region(addr) # {}
       THEN IF MmioTooLong(size)
            THEN ReturnAtOnce(Call("bar_mmio_read", 0, 0, <<>>, addr, size),
                              Fill(size, FillByte))
            ELSE PostAndWait(Call("bar_mmio_read", 0, 0, <<>>, addr, size),
                             AdapterMessage("MemoryRead", 0, 0, 0, Dword(0), addr, size,
                                            Len(calls) + 1),
                             Fill(size, InitByte))
       ELSE ReturnAtOnce(Call("bar_mmio_read", 0, 0, <<>>, addr, size),
                         Fill(size, InitByte))
    /\ UNCHANGED <<lane_req, lane_cpl, config_tag, store, bridge, registers, device,
                   mmio_regions, adapter, stops>>

\* rx.recv().unwrap() of call i: the reply is taken, or the channel is empty
\* with its sender dropped and the caller panics.  bar_mmio_read then
\* asserts that the reply is as long as the buffer and copies it.
CallerRecv(i) ==
    /\ i \in 1..Len(caller)
    /\ caller[i].st = "waiting"
    /\ IF reply[i].msgs # <<>>
       THEN LET m == Head(reply[i].msgs)
            IN  /\ reply' = [reply EXCEPT ![i].msgs = Tail(@), ![i].rx_alive = FALSE]
                /\ caller' =
                     [caller EXCEPT ![i] =
                        IF calls[i].op = "bar_mmio_read"
                        THEN IF Len(m.bytes) = Len(@.buf)
                             THEN [@ EXCEPT !.st = "returned", !.buf = m.bytes]
                             ELSE [@ EXCEPT !.st = "assert_failed"]
                        ELSE [@ EXCEPT !.st = "returned", !.dword = m.dword]]
       ELSE /\ ~reply[i].tx_alive
            /\ reply' = [reply EXCEPT ![i].rx_alive = FALSE]
            /\ caller' = [caller EXCEPT ![i].st = "recv_failed"]
    /\ UNCHANGED <<task, probe, strays, calls, hist, cmdq, lane_req, lane_cpl, config_tag, store, bridge,
                   registers, device, mmio_regions, adapter, stops>>

(***************************************************************************)
(* Bridge thread: PciSimBridge::run (adapter.rs).                          *)
(***************************************************************************)
\* what self.config_tag += 1 can do: the addition overflows the u8 when the
\* tag is 255, which panics in a build with overflow checks (the default of
\* debug and test builds) and wraps to 0 in a build without them
TagOutcomes == IF config_tag = TagMod - 1 THEN {"panic", "wrap"} ELSE {"next"}

\* what the shifts of the ConfigWrite arm can do: panic under overflow
\* checks, or go on with the wrapped shift amounts
ShiftOutcomes(msg) ==
    IF msg.kind = "ConfigWrite" /\ ConfigWriteShiftOverflows(msg.len, msg.offset)
    THEN {"panic", "wrap"}
    ELSE {"fits"}

\* the Reaction stored for a command and the request TLP emitted for it
ReactionFor(msg) ==
    [kind |-> CASE msg.kind = "ConfigRead" -> "ReadConfig"
                [] msg.kind = "ConfigWrite" -> "Notify"
                [] OTHER -> "ReadMemory",
     sender |-> msg.sender]

RequestTlp(msg, trans_id) ==
    CASE msg.kind = "ConfigRead" -> ConfigReadTlp(trans_id, msg.reg_idx, msg.sender)
      [] msg.kind = "ConfigWrite" -> ConfigWriteTlp(trans_id, msg, msg.sender)
      [] OTHER -> MemoryReadTlp(trans_id, msg.addr, msg.size, msg.sender)

\* the reply channels whose Sender is dropped
DropSenders(dropped) ==
    [i \in 1..Len(reply) |->
        IF i \in dropped THEN [reply[i] EXCEPT !.tx_alive = FALSE] ELSE reply[i]]

\* handle_adapter_msg: the tag is allocated, the reaction stored (an entry
\* under the same transaction id is replaced and its Sender dropped), the
\* request TLP built and sent on the lane; the send fails when the device
\* is gone
handle_adapter_msg(msg) ==
    \E outcome \in TagOutcomes, shift \in ShiftOutcomes(msg) :
        IF outcome = "panic"
        THEN /\ bridge' = "panicking"
             /\ reply' = DropSenders({msg.sender})
             /\ UNCHANGED <<config_tag, store, hist, lane_req>>
        ELSE LET trans_id == next_transaction_id(config_tag)
             IN  /\ config_tag' = (config_tag + 1) % TagMod
                 /\ store' = [t \in DOMAIN store \cup {trans_id} |->
                                 IF t = trans_id THEN ReactionFor(msg) ELSE store[t]]
                 /\ reply' = IF trans_id \in DOMAIN store
                             THEN DropSenders({store[trans_id].sender})
                             ELSE reply
                 /\ hist' = [hist EXCEPT ![msg.sender].trans_id = trans_id]
                 /\ IF shift = "panic" \/ DeviceGone
                    THEN bridge' = "panicking" /\ lane_req' = lane_req
                    ELSE /\ bridge' = bridge
                         /\ lane_req' = Append(lane_req, RequestTlp(msg, trans_id))

\* one iteration of the loop of run that receives from cmd_rx
BridgeRecvCmd ==
    /\ bridge = "running"
    /\ cmdq # <<>>
    /\ cmdq' = Tail(cmdq)
    /\ IF Head(cmdq).kind = "Exit"
       THEN /\ bridge' = "exiting"
            /\ UNCHANGED <<config_tag, store, hist, lane_req, reply>>
       ELSE handle_adapter_msg(Head(cmdq))
    /\ UNCHANGED <<task, probe, strays, calls, caller, lane_cpl, registers, device, mmio_regions,
                   adapter, stops>>

\* the message a reaction sends for completion t
ReplyFor(reaction, t) ==
    [dword |-> IF reaction.kind = "ReadConfig" THEN t.data[1] ELSE Dword(0),
     bytes |-> IF reaction.kind = "ReadMemory" THEN ReadMemoryBytes(t) ELSE <<>>,
     from_tid |-> transaction_id(t),
     origin |-> t.origin]

\* handle_transaction_msg: a CompletionData whose transaction id is in the
\* store is answered on the stored Sender (the entry stays in the store);
\* msg.data.unwrap()[0] and sender.send(..).unwrap() panic when there is no
\* payload or the caller has dropped its Receiver; any other type is
\* unimplemented!().  As history, the receipt is noted with the call the
\* TLP answers, or in strays when it answers none.
handle_transaction_msg(t) ==
    LET received == IF t.origin = 0 THEN hist
                    ELSE [hist EXCEPT ![t.origin].cpl_seq =
                             Append(@, CplCount(Len(hist)) + 1)]
        noted(outcome) == IF t.origin = 0
                          THEN Append(strays, [tlp |-> t, outcome |-> outcome])
                          ELSE strays
    IN
    IF t.type # "CompletionData"
    THEN /\ bridge' = "panicking" /\ reply' = reply /\ hist' = received
         /\ strays' = noted("panic")
    ELSE IF transaction_id(t) \notin DOMAIN store
    THEN /\ bridge' = bridge /\ reply' = reply /\ hist' = received
         /\ strays' = noted("dropped")
    ELSE LET reaction == store[transaction_id(t)]
             no_payload == /\ reaction.kind # "Notify"
                           /\ (~t.has_data \/ t.data = <<>>)
         IN  IF no_payload \/ ~reply[reaction.sender].rx_alive
             THEN /\ bridge' = "panicking" /\ reply' = reply /\ hist' = received
                  /\ strays' = noted("panic")
             ELSE /\ bridge' = bridge
                  /\ reply' = [reply EXCEPT ![reaction.sender].msgs =
                                  Append(@, ReplyFor(reaction, t))]
                  /\ hist' = [received EXCEPT ![reaction.sender].delivered =
                                 Append(@, ReplyFor(reaction, t))]
                  /\ strays' = noted("delivered")

\* one iteration of the loop of run that receives from lane.rx
BridgeRecvLane ==
    /\ bridge = "running"
    /\ lane_cpl # <<>>
    /\ lane_cpl' = Tail(lane_cpl)
    /\ handle_transaction_msg(Head(lane_cpl))
    /\ UNCHANGED <<task, probe, calls, caller, cmdq, lane_req, config_tag, store, registers,
                   device, mmio_regions, adapter, stops>>

\* lane.rx is empty and the device has dropped its end: recv fails and
\* msg.unwrap() panics
BridgeLaneClosed ==
    /\ bridge = "running"
    /\ lane_cpl = <<>>
    /\ DeviceGone
    /\ bridge' = "panicking"
    /\ UNCHANGED <<task, probe, strays, calls, caller, reply, hist, cmdq, lane_req, lane_cpl, config_tag,
                   store, registers, device, mmio_regions, adapter, stops>>

\* what becomes of the commands still queued in cmd_rx when the Receiver is
\* dropped while PciAdapter.tx keeps the channel alive: the channel discards
\* them at once, or keeps them until the channel itself is destroyed; which
\* one depends on the crossbeam-channel version the build resolves, and the
\* repository pins none
QueueOutcomes == {"discarded", "kept"}

\* a mutation of BridgeDropped: the reactions of the store are leaked
BridgeDropped_LeakStore(queue) ==
    IF queue = "discarded" THEN {cmdq[k].sender : k \in 1..Len(cmdq)} ELSE {}

\* the reply Senders that go when the PciSimBridge is dropped: those of the
\* store, and those of the commands still in the queue when the channel
\* discards them
BridgeDropped(queue) ==
    {store[t].sender : t \in DOMAIN store}
        \cup (IF queue = "discarded" THEN {cmdq[k].sender : k \in 1..Len(cmdq)} ELSE {})

\* the thread's closure ends (run returned after Exit, or a panic unwinds):
\* the PciSimBridge is dropped, with its store, its end of the lane and the
\* Receiver of the command queue
BridgeDrop ==
    /\ bridge \in {"exiting", "panicking"}
    /\ bridge' = IF bridge = "exiting" THEN "done" ELSE "panicked"
    /\ \E queue \in QueueOutcomes :
          /\ reply' = DropSenders(BridgeDropped(queue))
          /\ cmdq' = IF queue = "discarded" THEN <<>> ELSE cmdq
    /\ lane_cpl' = <<>>
    /\ store' = [t \in {} |-> 0]
    /\ UNCHANGED <<task, probe, strays, calls, caller, hist, lane_req, config_tag, registers, device,
                   mmio_regions, adapter, stops>>

(***************************************************************************)
(* Device thread: PciTestDevice::run (device.rs).                          *)
(***************************************************************************)
\* the request types the reference device answers
DeviceAnswers(t) == t.type \in {"Config0Read", "Config0Write", "MemoryRead64"}

\* the request types the reference device takes without answering: IoRead
\* (register 0 is read and printed), IoWrite, and the type 1 configuration
\* requests, which are for a bridge
DeviceIgnores(t) == t.type \in {"IoRead", "IoWrite", "Config1Read", "Config1Write"}

\* the completion the device builds for request t
DeviceCompletion(t) ==
    CASE t.type = "Config0Read" ->
            Config0ReadCompletion(t, read_config_register(registers, t.reg))
      [] t.type = "Config0Write" -> Config0WriteCompletion(t)
      [] OTHER -> MemoryReadCompletion(t)

\* one iteration of while let Ok(trans) = lane.rx.recv(): a request is
\* handled and its completion sent, copies times; lane.tx.send(tlp).unwrap()
\* panics when the bridge has dropped its end of the lane; a request of a
\* type the device ignores is taken and nothing else happens; any other
\* type is unimplemented!().  As history, the receipt of the request is
\* noted with its call whatever becomes of it.
DeviceRun(copies) ==
    /\ device = "running"
    /\ lane_req # <<>>
    /\ lane_req' = Tail(lane_req)
    /\ LET t == Head(lane_req)
           received == [hist EXCEPT
                           ![t.origin].dev_seq = Append(@, DevCount(Len(hist)) + 1)]
       IN  IF DeviceIgnores(t)
           THEN /\ hist' = received
                /\ UNCHANGED <<device, registers, lane_cpl>>
           ELSE IF ~DeviceAnswers(t) \/ (t.type = "Config0Write" /\ DeviceWritePanics(t))
           THEN /\ device' = "panicked"
                /\ hist' = received
                /\ UNCHANGED <<registers, lane_cpl>>
           ELSE /\ registers' =
                     IF t.type = "Config0Write"
                     THEN write_config_register(registers, t.reg, DeviceWriteOffset(t),
                                                DeviceWriteData(t))
                     ELSE registers
                /\ hist' = [received EXCEPT
                              ![t.origin].dev_value =
                                  IF t.type = "Config0Read"
                                  THEN read_config_register(registers, t.reg)
                                  ELSE @]
                /\ IF BridgeGone
                   THEN device' = "panicked" /\ lane_cpl' = lane_cpl
                   ELSE /\ device' = device
                        /\ lane_cpl' = lane_cpl \o [c \in 1..copies |->
                                                       DeviceCompletion(t)]
    /\ UNCHANGED <<task, probe, strays, calls, caller, reply, cmdq, config_tag, store, bridge,
                   mmio_regions, adapter, stops>>

\* PciTestDevice::run: each request is answered with one completion
DeviceRecv == DeviceRun(1)

\* lane.rx.recv() fails: the lane is empty and the bridge has dropped its
\* Sender; run returns
DeviceRecvClosed ==
    /\ device = "running"
    /\ lane_req = <<>>
    /\ BridgeGone
    /\ device' = "returned"
    /\ UNCHANGED <<task, probe, strays, calls, caller, reply, hist, cmdq, lane_req, lane_cpl, config_tag,
                   store, bridge, registers, mmio_regions, adapter, stops>>

(***************************************************************************)
(* Adapter handle: stop, join and the region list (adapter.rs, device.rs). *)
(***************************************************************************)
\* PciAdapter::stop: self.tx.send(AdapterMessage::Exit).unwrap()
stop ==
    /\ adapter = "live"
    /\ IF CanSend
       THEN /\ cmdq' = Append(cmdq, AdapterMessage("Exit", 0, 0, 0, Dword(0), Bytes(0, 8), 0, 0))
            /\ stops' = Append(stops, "sent")
       ELSE /\ cmdq' = cmdq
            /\ stops' = Append(stops, "send_failed")
    /\ UNCHANGED <<task, probe, strays, calls, caller, reply, hist, lane_req, lane_cpl, config_tag, store,
                   bridge, registers, device, mmio_regions, adapter>>

\* PciAdapter::join is entered: it takes the adapter by value, so no call
\* on the adapter is in progress and none can follow
join ==
    /\ adapter = "live"
    /\ \A i \in 1..Len(caller) : caller[i].st # "waiting"
    /\ adapter' = "joining"
    /\ UNCHANGED <<task, probe, strays, calls, caller, reply, hist, cmdq, lane_req, lane_cpl, config_tag,
                   store, bridge, registers, device, mmio_regions, stops>>

\* self.handle.join().unwrap() returns once the bridge thread has ended,
\* and panics when that thread panicked
JoinReturn ==
    /\ adapter = "joining"
    /\ BridgeGone
    /\ adapter' = IF bridge = "done" THEN "joined" ELSE "join_panicked"
    /\ UNCHANGED <<task, probe, strays, calls, caller, reply, hist, cmdq, lane_req, lane_cpl, config_tag,
                   store, bridge, registers, device, mmio_regions, stops>>

\* the region the bar test pushes to mmio_regions
TestRegion == [start |-> TestRegionStart, length |-> TestRegionLength,
               type_ |-> "Memory64BitRegion", bar_reg |-> 0, slot_mapped |-> FALSE]

\* adapter.mmio_regions.push(..) of the bar test: the list is changed through
\* an exclusive reference, so no call on the adapter is in progress
RegisterRegion ==
    /\ adapter = "live"
    /\ \A i \in 1..Len(caller) : caller[i].st # "waiting"
    /\ mmio_regions = <<>>
    /\ mmio_regions' = <<TestRegion>>
    /\ UNCHANGED <<task, probe, strays, calls, caller, reply, hist, cmdq, lane_req, lane_cpl, config_tag,
                   store, bridge, registers, device, adapter, stops>>

(***************************************************************************)
(* Specifications.                                                         *)
(***************************************************************************)
\* the inputs of the concurrent specification
ReadRegs == {0, 5}
WriteRegs == {5}
\* 0x1111_2222 and 0xffff_ffff
WriteValues == {<<34, 34, 17, 17>>, <<255, 255, 255, 255>>}
\* the data of a configuration write: the four bytes of a value, or no byte
\* at all (the byte enable is then 0 and the device panics decoding it)
WriteData == {to_le_bytes(v) : v \in WriteValues} \cup {<<>>}
MmioAddrs == {TestRegionStart}
MmioSizes == {4, 8}

\* any caller makes any call at any time; the bridge, the device and the
\* callers run concurrently; stop is called at most MaxStops times
MaxStops == 1

ApiCall ==
    /\ Len(calls) < MaxCalls
    /\ \/ \E r \in ReadRegs : config_read(r)
       \/ \E r \in WriteRegs, d \in WriteData : config_write(r, 0, d)
       \/ \E a \in MmioAddrs, n \in MmioSizes : bar_mmio_read(a, n)
    /\ UNCHANGED <<task, probe, strays>>

Stop == Len(stops) < MaxStops /\ stop

Next ==
    \/ ApiCall
    \/ \E i \in 1..Len(caller) : CallerRecv(i)
    \/ BridgeRecvCmd
    \/ BridgeRecvLane
    \/ BridgeLaneClosed
    \/ BridgeDrop
    \/ DeviceRecv
    \/ DeviceRecvClosed
    \/ Stop
    \/ join
    \/ JoinReturn
    \/ RegisterRegion

Spec == Init /\ [][Next]_vars

(***************************************************************************)
(* Claims checked under Spec.                                              *)
(***************************************************************************)
\* call i posted a command that the bridge turned into a request TLP
Emitted(i) == hist[i].trans_id # NoTransaction

\* no message was sent on the reply channel of call i and none can be: the
\* Sender is gone
ClosedUnanswered(i) == hist[i].delivered = <<>> /\ ~reply[i].tx_alive

\* C2: with fewer than 256 requests outstanding at once, the reply channel
\* of every caller that posted a command receives exactly one message, and
\* that message is derived from the completion that carries the transaction
\* id of the caller's own request and answers that request: a channel never
\* receives a second message, a caller that returned received one, and
\* (stop not having been called) no channel is closed without its message.
C2_ExactlyOneOwnReply ==
    \A i \in 1..Len(calls) :
        /\ Len(hist[i].delivered) <= 1
        /\ \A k \in 1..Len(hist[i].delivered) :
              /\ hist[i].delivered[k].from_tid = hist[i].trans_id
              /\ hist[i].delivered[k].origin = i
        /\ (hist[i].posts /\ caller[i].st = "returned") => Len(hist[i].delivered) = 1
        /\ (hist[i].posts /\ stops = <<>>) => ~ClosedUnanswered(i)

\* the registers the reference device stores verbatim
VerbatimRegs == {r \in ConfigRegs : WritableBits[r] = <<255, 255, 255, 255>>}

\* call i is config_write(r, 0, v.to_le_bytes()), call j a later
\* config_read(r) made after call i returned, with no write to r in between
WriteThenRead(i, j) ==
    /\ i < j
    /\ calls[i].op = "config_write" /\ calls[j].op = "config_read"
    /\ calls[i].reg_idx = calls[j].reg_idx
    /\ calls[i].reg_idx \in VerbatimRegs
    /\ calls[i].offset = 0 /\ Len(calls[i].bytes) = 4
    /\ i \in hist[j].returned_before
    /\ \A k \in (i + 1)..(j - 1) :
          ~(calls[k].op = "config_write" /\ calls[k].reg_idx = calls[i].reg_idx)

\* C4: for a register r the device stores verbatim and a 32-bit value v,
\* config_write(r, 0, v.to_le_bytes()) followed by config_read(r) returns v.
C4_WriteReadRoundTrip ==
    \A i, j \in 1..Len(calls) :
        (WriteThenRead(i, j) /\ caller[j].st = "returned")
            => caller[j].dword = calls[i].bytes

\* a write of 0x1111_2222 has been read back
C4_Witness ==
    \E i, j \in 1..Len(calls) :
        /\ WriteThenRead(i, j)
        /\ caller[j].st = "returned"
        /\ calls[i].bytes = <<34, 34, 17, 17>>

\* C10: a config_read, config_write or mapped bar_mmio_read started after the
\* bridge thread has ended fails at its send (channel closed) instead of
\* blocking, its command is never queued and no TLP is ever sent for it.
C10_CallAfterBridgeEnded ==
    \A i \in 1..Len(calls) :
        (hist[i].posts /\ hist[i].after_gone) =>
            /\ caller[i].st = "send_failed"
            /\ ~Emitted(i)
            /\ \A k \in 1..Len(cmdq) : cmdq[k].sender # i
            /\ \A k \in 1..Len(lane_req) : lane_req[k].origin # i
            /\ \A k \in 1..Len(lane_cpl) : lane_cpl[k].origin # i

\* a config_read and a mapped bar_mmio_read were made after the bridge ended
C10_Witness ==
    \E i, j \in 1..Len(calls) :
        /\ hist[i].posts /\ hist[i].after_gone /\ calls[i].op = "config_read"
        /\ hist[j].posts /\ hist[j].after_gone /\ calls[j].op = "bar_mmio_read"
        /\ caller[i].st = "send_failed" /\ caller[j].st = "send_failed"

(***************************************************************************)
(* MMIO reads: one thread makes bar_mmio_read calls one after the other,   *)
(* at every alignment of the address within a DWORD and every buffer size  *)
(* up to one past the limit, inside and outside the registered region.     *)
(***************************************************************************)
\* 0xDEAD_BEEF, outside every region
UnmappedAddr == <<239, 190, 173, 222, 0, 0, 0, 0>>

MmioAddrsAll == {AddBytes(TestRegionStart, Bytes(k, 8)) : k \in 0..3} \cup {UnmappedAddr}
MmioSizesAll == 1..(MaxMmioLen + 1)

MmioCall ==
    /\ Len(calls) < MaxMmioCalls
    /\ \A i \in 1..Len(caller) : caller[i].st # "waiting"
    /\ \E a \in MmioAddrsAll, n \in MmioSizesAll : bar_mmio_read(a, n)
    /\ UNCHANGED <<task, probe, strays>>

NextMmio ==
    \/ MmioCall
    \/ \E i \in 1..Len(caller) : CallerRecv(i)
    \/ BridgeRecvCmd
    \/ BridgeRecvLane
    \/ DeviceRecv
    \/ RegisterRegion

SpecMmio == Init /\ [][NextMmio]_vars

\* call i is a bar_mmio_read of an address inside a registered region
MappedRead(i) == calls[i].op = "bar_mmio_read" /\ hist[i].mapped

\* C3: for every alignment of the address and every buffer size n from 1 to
\* 8, the byte vector the bridge reassembles for a mapped bar_mmio_read has
\* length n and the call does not fail its length assertion.
C3_ReadReturnsRequestedLength ==
    \A i \in 1..Len(calls) :
        (MappedRead(i) /\ calls[i].size \in 1..MaxMmioLen) =>
            /\ caller[i].st # "assert_failed"
            /\ \A k \in 1..Len(hist[i].delivered) :
                  Len(hist[i].delivered[k].bytes) = calls[i].size

\* C5: a bar_mmio_read of an address in no registered region returns at once
\* with the buffer filled with 0xff, and posts no command.
C5_UnmappedReadFilled ==
    \A i \in 1..Len(calls) :
        (calls[i].op = "bar_mmio_read" /\ ~hist[i].mapped) =>
            /\ caller[i].st = "returned"
            /\ caller[i].buf = Fill(calls[i].size, FillByte)
            /\ ~hist[i].posts

\* call i is a bar_mmio_read of a mapped address with a buffer over 8 bytes
OversizedRead(i) == MappedRead(i) /\ calls[i].size > MaxMmioLen

\* C6: a bar_mmio_read of a mapped address with a buffer longer than 8 bytes
\* returns at once with the buffer filled with 0xff; it posts no MemoryRead
\* command, no TLP is ever emitted for it, and the call leaves the command
\* queue, the lane, the pending table and the tag counter unchanged.
C6_OversizedReadRejected ==
    /\ [](\A i \in 1..Len(calls) :
            OversizedRead(i) =>
                /\ caller[i].st = "returned"
                /\ caller[i].buf = Fill(calls[i].size, FillByte)
                /\ ~hist[i].posts
                /\ ~Emitted(i)
                /\ \A k \in 1..Len(cmdq) : cmdq[k].sender # i
                /\ \A k \in 1..Len(lane_req) : lane_req[k].origin # i)
    /\ [][(/\ Len(calls') = Len(calls) + 1
           /\ calls'[Len(calls')].op = "bar_mmio_read"
           /\ hist'[Len(calls')].mapped
           /\ calls'[Len(calls')].size > MaxMmioLen)
          => UNCHANGED <<cmdq, lane_req, lane_cpl, store, config_tag>>]_vars

\* an oversized read of the region was made after an earlier read had taken
\* a tag and an entry of the pending table
C6_Witness ==
    /\ Len(calls) > 1
    /\ OversizedRead(Len(calls))
    /\ caller[Len(calls)].st = "returned"
    /\ caller[Len(calls)].buf = Fill(MaxMmioLen + 1, FillByte)
    /\ config_tag > 0
    /\ DOMAIN store # {}

(***************************************************************************)
(* Progress.  The bridge and the device are threads of their own and each  *)
(* caller blocks in recv, so a step of one of them that stays possible is  *)
(* eventually taken; nothing obliges the program to make further calls, to *)
(* call stop or to call join.                                              *)
(***************************************************************************)
LiveCall ==
    /\ Len(calls) < MaxLiveCalls
    /\ \/ config_read(0)
       \/ \E r \in WriteRegs : config_write(r, 0, to_le_bytes(<<34, 34, 17, 17>>))
       \/ \E a \in MmioAddrs, n \in MmioSizes : bar_mmio_read(a, n)
    /\ UNCHANGED <<task, probe, strays>>

NextLive ==
    \/ LiveCall
    \/ \E i \in 1..Len(caller) : CallerRecv(i)
    \/ BridgeRecvCmd
    \/ BridgeRecvLane
    \/ BridgeDrop
    \/ DeviceRecv
    \/ DeviceRecvClosed
    \/ Stop
    \/ RegisterRegion

Fairness ==
    /\ WF_vars(BridgeRecvCmd)
    /\ WF_vars(BridgeRecvLane)
    /\ WF_vars(BridgeDrop)
    /\ WF_vars(DeviceRecv)
    /\ WF_vars(DeviceRecvClosed)
    /\ \A i \in 1..MaxLiveCalls : WF_vars(CallerRecv(i))

FairSpec == Init /\ [][NextLive]_vars /\ Fairness

\* caller i is blocked in recv on its reply channel, its command posted
Waiting(i) == i <= Len(caller) /\ caller[i].st = "waiting"

\* caller i has received its reply, or its recv has failed on a closed channel
Released(i) ==
    i <= Len(caller) /\ caller[i].st \in {"returned", "assert_failed", "recv_failed"}

\* the command of caller i was still queued when the bridge ended and the
\* channel has kept it: the Sender inside it lives as long as the adapter
QueuedForever(i) == BridgeGone /\ \E k \in 1..Len(cmdq) : cmdq[k].sender = i

WrapCalls == TagMod + 1

\* every call made so far has returned: a call whose send or recv fails
\* panics in unwrap and ends the calling thread
AllReturned == \A i \in 1..Len(caller) : caller[i].st = "returned"

\* the thread's next config_read(0), made once its previous call has returned
WrapCall ==
    /\ Len(calls) < WrapCalls
    /\ AllReturned
    /\ config_read(0)
    /\ UNCHANGED <<task, probe, strays>>

NextWrap ==
    \/ WrapCall
    \/ \E i \in 1..Len(caller) : CallerRecv(i)
    \/ BridgeRecvCmd
    \/ BridgeRecvLane
    \/ BridgeDrop
    \/ DeviceRecv
    \/ DeviceRecvClosed
    \/ Stop
    \/ join
    \/ JoinReturn

SpecWrap == Init /\ [][NextWrap]_vars

(***************************************************************************)
(* More than 256 requests outstanding: FloodCalls threads each make one    *)
(* call, the last a config_read or a config_write, against a PciSimDevice  *)
(* whose run takes one request off the lane and stalls on it, in a build   *)
(* without overflow checks.  No completion reaches the bridge, so its lane *)
(* arm stays blocked and no reply is sent; a caller is woken only when the *)
(* reuse of its tag replaces its entry of the store and drops its Sender.  *)
(***************************************************************************)
FloodCalls == TagMod + 1

\* the commands posted and not yet taken by the bridge, at most
MaxQueued == 3

\* one more thread makes its call: the command is sent on the unbounded
\* channel whatever is queued, and the thread blocks in recv
FloodCall ==
    /\ Len(calls) < FloodCalls
    /\ Len(cmdq) < MaxQueued
    /\ \/ config_read(0)
       \/ Len(calls) = TagMod /\ config_write(0, 0, <<34, 34, 17, 17>>)
    /\ UNCHANGED <<task, probe, strays>>

\* self.config_tag += 1 compiled without overflow checks: the tag wraps and
\* the bridge goes on
FloodBridgeRecvCmd == BridgeRecvCmd /\ bridge' = "running"

\* run of the stalling device: lane.rx.recv() yields a request, and the
\* device neither answers it nor takes another
StalledDeviceRecv ==
    /\ device = "running"
    /\ lane_req # <<>>
    /\ lane_req' = Tail(lane_req)
    /\ device' = "stalled"
    /\ hist' = [hist EXCEPT ![Head(lane_req).origin].dev_seq =
                    Append(@, DevCount(Len(hist)) + 1)]
    /\ UNCHANGED <<task, probe, strays, calls, caller, reply, cmdq, lane_cpl, config_tag,
                   store, bridge, registers, mmio_regions, adapter, stops>>

NextFlood ==
    \/ FloodCall
    \/ \E i \in 1..Len(caller) : CallerRecv(i)
    \/ FloodBridgeRecvCmd
    \/ StalledDeviceRecv

SpecFlood == Init /\ [][NextFlood]_vars

\* C1 states that, with no Exit ever sent, every config_read returns, and
\* returns the DWORD the device read at that register for that request.  A
\* call whose send or recv has failed never returns, so the claim requires:
\* while stop has not been called no config_read observes a closed channel,
\* and a config_read that returned holds the value the device read for it.
C1_ConfigReadReturnsDeviceValue ==
    stops = <<>> =>
        \A i \in 1..Len(calls) :
            calls[i].op = "config_read" =>
                /\ caller[i].st \notin {"send_failed", "recv_failed"}
                /\ caller[i].st = "returned" => caller[i].dword = hist[i].dev_value

\* request i has been emitted and its reply not yet delivered to its caller
Outstanding(i) ==
    /\ Emitted(i)
    /\ caller[i].st = "waiting"
    /\ reply[i].msgs = <<>>

\* C7: at every instant no two outstanding requests have the same
\* transaction id, whatever the number of callers and of requests issued,
\* also after the tag counter has passed 255.
C7_OutstandingIdsDistinct ==
    \A i, j \in 1..Len(calls) :
        (i # j /\ Outstanding(i) /\ Outstanding(j)) => hist[i].trans_id # hist[j].trans_id

\* C9 states that after stop() the bridge thread ends and join() returns,
\* whatever is still queued or in flight.  A join that panics does not
\* return, so the claim requires: once stop has posted Exit, join does not
\* end in a panic.
C9_JoinReturnsAfterStop ==
    (stops # <<>> /\ stops[1] = "sent") => adapter # "join_panicked"

(***************************************************************************)
(* Claims about the TLPs on the lane.                                      *)
(***************************************************************************)
\* C11: every Config0Read and Config0Write TLP the bridge puts on the lane
\* has traffic class TC0, relaxed ordering false, no-snoop false and a
\* header length of exactly 1 DW.
C11_ConfigRequestsValid ==
    \A k \in 1..Len(lane_req) :
        lane_req[k].type \in {"Config0Read", "Config0Write"} =>
            /\ lane_req[k].trafic_class = "TC0"
            /\ ~lane_req[k].relax_ordering
            /\ ~lane_req[k].no_snoop
            /\ lane_req[k].length = 1

\* request TLP t was emitted for a config_write with offset + len <= 4 or
\* for a bar_mmio_read of 1 to 8 bytes
WriteOrReadRequest(t) ==
    \/ /\ calls[t.origin].op = "config_write"
       /\ calls[t.origin].offset + Len(calls[t.origin].bytes) <= 4
    \/ /\ calls[t.origin].op = "bar_mmio_read"
       /\ calls[t.origin].size \in 1..MaxMmioLen

\* C12: for every request TLP the bridge emits for a config_write with
\* offset + len <= 4 or a bar_mmio_read of 1 to 8 bytes at any address:
\* when length = 1 the last-DW nibble of the byte enable is zero and the
\* first-DW nibble is non-zero; when length > 1 both nibbles are non-zero.
C12_RequestByteEnables ==
    \A k \in 1..Len(lane_req) :
        WriteOrReadRequest(lane_req[k]) =>
            /\ lane_req[k].length = 1 =>
                  /\ BitAnd(lane_req[k].byte_enable, 240) = 0
                  /\ BitAnd(lane_req[k].byte_enable, 15) # 0
            /\ lane_req[k].length > 1 =>
                  /\ BitAnd(lane_req[k].byte_enable, 240) # 0
                  /\ BitAnd(lane_req[k].byte_enable, 15) # 0

\* call i put a command on the command queue, and its position among the
\* commands enqueued
Enqueued(i) == hist[i].posts /\ ~hist[i].after_gone
EnqPos(i) == Cardinality({j \in 1..i : Enqueued(j)})

\* C13: the request TLPs the device receives are the non-Exit commands in
\* the order they were enqueued, one TLP per command: no request is received
\* twice, the k-th request received is that of the k-th command enqueued,
\* and (no Exit having been sent) a command the bridge has taken from the
\* queue has its request on the lane or at the device; the bridge receives
\* the completions in the order the device sent them.
C13_LaneOrderPreserved ==
    \A i \in 1..Len(calls) :
        /\ Len(hist[i].dev_seq) <= 1
        /\ hist[i].dev_seq # <<>> => (Enqueued(i) /\ hist[i].dev_seq[1] = EnqPos(i))
        /\ hist[i].cpl_seq # <<>> => hist[i].cpl_seq = hist[i].dev_seq
        /\ (stops = <<>> /\ Enqueued(i) /\ \A k \in 1..Len(cmdq) : cmdq[k].sender # i)
              => \/ hist[i].dev_seq # <<>>
                 \/ \E k \in 1..Len(lane_req) : lane_req[k].origin = i

(***************************************************************************)
(* Tlp::is_valid on its own: a TLP of any packet type, header length,      *)
(* byte enable, traffic class and ordering attributes is given to it.      *)
(***************************************************************************)
MaxProbeLength == 2

ProbeTypes ==
    {"Config0Read", "Config0Write", "Config1Read", "Config1Write", "MemoryRead",
     "MemoryRead64", "MemoryWrite", "IoRead", "IoWrite", "Completion", "CompletionData"}

\* 0x00, 0x01, 0x0f, 0x10, 0x1f, 0xf0, 0xff
ProbeByteEnables == {0, 1, 15, 16, 31, 240, 255}

ProbeTlps ==
    {[with_type(ty, BridgeBdf, CompleterBdf, 0, 0, Bytes(0, 8), 0, 0)
        EXCEPT !.length = len, !.byte_enable = be, !.trafic_class = tc,
               !.relax_ordering = ro, !.no_snoop = ns] :
        ty \in ProbeTypes, len \in 0..MaxProbeLength, be \in ProbeByteEnables,
        tc \in {"TC0", "TC1"}, ro \in BOOLEAN, ns \in BOOLEAN}

InitValid ==
    /\ InitAdapter
    /\ probe \in {[tlp |-> t, result |-> "none"] : t \in ProbeTlps}

\* tlp.is_valid() is called
IsValidCall ==
    /\ probe.result = "none"
    /\ probe' = [probe EXCEPT !.result = is_valid(probe.tlp)]
    /\ UNCHANGED <<calls, caller, reply, hist, cmdq, lane_req, lane_cpl, config_tag,
                   store, bridge, registers, device, mmio_regions, adapter, stops,
                   task, strays>>

NextValid == IsValidCall

SpecValid == InitValid /\ [][NextValid]_vars

\* the byte-enable rules: length 1, last-DW nibble zero and first-DW nibble
\* non-zero; length over 1, both nibbles non-zero
ByteEnableRulesHold(t) ==
    /\ t.length = 1 =>
          (BitAnd(t.byte_enable, 240) = 0 /\ BitAnd(t.byte_enable, 15) # 0)
    /\ t.length > 1 =>
          (BitAnd(t.byte_enable, 240) # 0 /\ BitAnd(t.byte_enable, 15) # 0)

\* C19: for every TLP of every packet type is_valid returns a boolean: true
\* exactly when the byte-enable rules hold and, for Config0 and Config1 reads
\* and writes, the traffic class is TC0, relaxed ordering and no-snoop are
\* false and the length is 1; for every other type the byte-enable rules
\* alone decide.
C19_IsValidDecides ==
    probe.result # "none" =>
        probe.result =
            IF /\ ByteEnableRulesHold(probe.tlp)
               /\ probe.tlp.type \in {"Config0Read", "Config0Write",
                                      "Config1Read", "Config1Write"} =>
                     /\ probe.tlp.trafic_class = "TC0"
                     /\ ~probe.tlp.relax_ordering
                     /\ ~probe.tlp.no_snoop
                     /\ probe.tlp.length = 1
            THEN "true"
            ELSE "false"

(***************************************************************************)
(* BAR discovery and allocation: PciAdapter::detect_bar, scan_bar and      *)
(* allocate_bars (adapter.rs).  They take the adapter by exclusive         *)
(* reference, so no other call on the adapter is in progress; each         *)
(* configuration access they make blocks until its reply has come.         *)
(***************************************************************************)
\* every call made on the adapter has returned, and the DWORD the last one
\* returned
LastReturned == \A i \in 1..Len(caller) : caller[i].st = "returned"
LastDword == caller[Len(caller)].dword

\* PciAdapter::config_write_u32
config_write_u32(reg_idx, v) == config_write(reg_idx, 0, to_le_bytes(v))

\* a mutation of DetectRestoreValue: the detected value is written back
DetectRestoreValue_Ret(pre, ret) == ret

\* detect_bar: the value of self.config_write_u32(reg_idx, pre)
DetectRestoreValue(pre, ret) == pre

\* detect_bar(reg) is entered from state t of the caller:
\* let pre = self.read_config_register(reg_idx), up to the blocking receive
DetectEnter(t, reg) ==
    /\ task' = [t EXCEPT !.det_reg = reg, !.det_step = 1,
                         !.before = read_config_register(registers, reg)]
    /\ config_read(reg)
    /\ UNCHANGED <<probe, strays>>

\* detect_bar goes on once the access it waits for has returned: pre is
\* read and all ones written; the register is read again; ret is read and
\* pre written back
DetectStep ==
    /\ task.det_step \in 1..3
    /\ LastReturned
    /\ CASE task.det_step = 1 ->
              /\ task' = [task EXCEPT !.pre = LastDword, !.det_step = 2]
              /\ config_write_u32(task.det_reg, AllOnes)
         [] task.det_step = 2 ->
              /\ task' = [task EXCEPT !.det_step = 3]
              /\ config_read(task.det_reg)
         [] task.det_step = 3 ->
              /\ task' = [task EXCEPT !.ret = LastDword, !.det_step = 4]
              /\ config_write_u32(task.det_reg, DetectRestoreValue(task.pre, LastDword))
    /\ UNCHANGED <<probe, strays>>

\* the task as detect_bar returns: as history, the register is noted when
\* it does not hold what it held when detect_bar was called
DetectDone ==
    [task EXCEPT !.det_step = 0,
                 !.changed = IF read_config_register(registers, task.det_reg) = task.before
                             THEN @ ELSE @ \cup {task.det_reg}]

\* the task as a call of op starts: its locals are fresh; the history of
\* the calls before it (the registers detect_bar left changed, the free_bars
\* calls and what they gave back) and what is known of the build stay
NewTask(op) ==
    [IdleTask EXCEPT !.op = op, !.changed = task.changed,
                     !.free_calls = task.free_calls, !.freed = task.freed,
                     !.arch = task.arch, !.wrapped = task.wrapped]

\* detect_bar(reg_idx) is called on its own
StartDetect(reg_idx) ==
    /\ task.op = "idle"
    /\ LastReturned
    /\ DetectEnter([NewTask("detect_bar") EXCEPT !.pc = "detect_bar"], reg_idx)

\* detect_bar called on its own returns ret
DetectReturn ==
    /\ task.pc = "detect_bar"
    /\ task.det_step = 4
    /\ LastReturned
    /\ task' = [DetectDone EXCEPT !.pc = "returned", !.result = "Ok"]
    /\ UNCHANGED <<calls, caller, reply, hist, cmdq, lane_req, lane_cpl, config_tag,
                   store, bridge, registers, device, mmio_regions, adapter, stops,
                   probe, strays>>

\* scan_bar: the region type and the prefetchable bit read from lsb_size
RegionType(lsb_size) ==
    IF lsb_size[1] % 2 = 1 THEN "IoRegion"
    ELSE IF (lsb_size[1] \div 2) % 4 = 2 THEN "Memory64BitRegion"
    ELSE "Memory32BitRegion"

Prefetchable(lsb_size) == (lsb_size[1] \div 8) % 2 = 1

\* a mutation of RegionSize: the upper half of a 64-bit BAR is left out
RegionSize_LowOnly(lsb_size, msb_size) ==
    LET low(mask) == <<BitAnd(lsb_size[1], mask), lsb_size[2], lsb_size[3], lsb_size[4]>>
    IN  IF RegionType(lsb_size) = "IoRegion"
        THEN AddBytes(NotBytes(low(252)), Dword(1)) \o Dword(0)
        ELSE AddBytes(NotBytes(low(240) \o Dword(0)), Bytes(1, 8))

\* scan_bar: the + 1 of region_size overflows (u64 for memory, u32 for I/O):
\* the BAR read back without any address bit, so the complement is all ones
RegionSizeOverflows(lsb_size, msb_size) ==
    LET low(mask) == <<BitAnd(lsb_size[1], mask), lsb_size[2], lsb_size[3], lsb_size[4]>>
    IN  CASE RegionType(lsb_size) = "Memory64BitRegion" ->
                low(240) \o msb_size = Bytes(0, 8)
          [] RegionType(lsb_size) = "Memory32BitRegion" -> low(240) = Dword(0)
          [] OTHER -> low(252) = Dword(0)

\* what the + 1 of region_size can do: when it overflows it panics in a
\* build with overflow checks and wraps to 0 in a build without them
SizeOutcomes(lsb_size, msb_size, wrapped) ==
    IF ~RegionSizeOverflows(lsb_size, msb_size) THEN {"fits"}
    ELSE IF wrapped THEN {"wrap"}
    ELSE {"panic", "wrap"}

\* scan_bar: region_size as a u64; the memory sizes are computed in 64 bits,
\* the I/O size in 32 bits and then widened; where the + 1 overflows, the
\* value of a build without overflow checks
RegionSize(lsb_size, msb_size) ==
    LET low(mask) == <<BitAnd(lsb_size[1], mask), lsb_size[2], lsb_size[3], lsb_size[4]>>
    IN  CASE RegionType(lsb_size) = "Memory64BitRegion" ->
                AddBytes(NotBytes(low(240) \o msb_size), Bytes(1, 8))
          [] RegionType(lsb_size) = "Memory32BitRegion" ->
                AddBytes(NotBytes(low(240) \o Dword(0)), Bytes(1, 8))
          [] OTHER ->
                AddBytes(NotBytes(low(252)), Dword(1)) \o Dword(0)

\* scan_bar: the MmioRegion pushed for a BAR
ScannedRegion(lsb_size, msb_size, bar_reg) ==
    [start |-> Bytes(0, 8),
     length |-> RegionSize(lsb_size, msb_size),
     type_ |-> RegionType(lsb_size),
     bar_reg |-> bar_reg,
     slot_mapped |-> RegionType(lsb_size) # "IoRegion" /\ Prefetchable(lsb_size)]

\* scan_bar goes on at BAR register b with the regions found so far: the
\* next detect_bar is entered, or the loop ends: scan_bar called on its own
\* returns the regions, and allocate_bars clears self.mmio_regions and
\* starts on the first region
ScanFrom(t, b, found) ==
    IF b < BAR0_REG + NUM_BAR_REGS
    THEN DetectEnter([t EXCEPT !.pc = "scan_lsb", !.bar_reg = b, !.regions = found], b)
    ELSE /\ task' = IF t.op = "scan_bar"
                    THEN [t EXCEPT !.pc = "returned", !.result = "Ok", !.bar_reg = b,
                                   !.regions = found]
                    ELSE [t EXCEPT !.pc = "alloc", !.bar_reg = b, !.regions = found,
                                   !.k = 1]
         /\ mmio_regions' = IF t.op = "scan_bar" THEN mmio_regions ELSE <<>>
         /\ UNCHANGED <<calls, caller, reply, hist, cmdq, lane_req, lane_cpl,
                        config_tag, store, bridge, registers, device, adapter, stops,
                        probe, strays>>

\* scan_bar computes the size of the BAR at task.bar_reg and pushes its
\* region, then goes on at register next_reg; the call panics when the size
\* overflows in a build with overflow checks
ScanPush(lsb_size, msb_size, next_reg) ==
    \E outcome \in SizeOutcomes(lsb_size, msb_size, task.wrapped) :
        IF outcome = "panic"
        THEN /\ task' = [DetectDone EXCEPT !.pc = "panicked", !.result = "panicked"]
             /\ UNCHANGED <<calls, caller, reply, hist, cmdq, lane_req, lane_cpl,
                            config_tag, store, bridge, registers, device, mmio_regions,
                            adapter, stops, probe, strays>>
        ELSE ScanFrom([DetectDone EXCEPT !.wrapped = @ \/ outcome = "wrap"], next_reg,
                      Append(task.regions,
                             ScannedRegion(lsb_size, msb_size, task.bar_reg)))

\* allocate_bars is called: scan_bar starts at BAR0_REG
StartAllocate ==
    /\ task.op = "idle"
    /\ LastReturned
    /\ ScanFrom(NewTask("allocate_bars"), BAR0_REG, <<>>)

\* a detect_bar of scan_bar returns: an lsb_size of 0 skips the register, a
\* 64-bit memory BAR has its upper half detected next, any other BAR is
\* pushed at once; after the upper half the 64-bit BAR is pushed and the
\* register after it is next
ScanStep ==
    /\ task.pc \in {"scan_lsb", "scan_msb"}
    /\ task.det_step = 4
    /\ LastReturned
    /\ IF task.pc = "scan_msb"
       THEN ScanPush(task.lsb_size, task.ret, task.bar_reg + 2)
       ELSE IF task.ret = Dword(0)
       THEN ScanFrom(DetectDone, task.bar_reg + 1, task.regions)
       ELSE IF RegionType(task.ret) = "Memory64BitRegion"
       THEN DetectEnter([DetectDone EXCEPT !.pc = "scan_msb", !.lsb_size = task.ret],
                        task.bar_reg + 1)
       ELSE ScanPush(task.ret, Dword(0), task.bar_reg + 1)

\* what the system allocator can answer for a region: no address (<<>>), or
\* a start address with the alignment allocate_bars asks for (0x10 for
\* memory, 0x4 for I/O): 0x1_7000_0000 and 0x1_7000_0010, 0xe000_0000 and
\* 0xe000_0010, 0xc000 and 0xc004
AllocatorOutcomes(region) ==
    {<<>>} \cup
    CASE region.type_ = "Memory64BitRegion" ->
            {<<0, 0, 0, 112, 1, 0, 0, 0>>, <<16, 0, 0, 112, 1, 0, 0, 0>>}
      [] region.type_ = "Memory32BitRegion" ->
            {<<0, 0, 0, 224, 0, 0, 0, 0>>, <<16, 0, 0, 224, 0, 0, 0, 0>>}
      [] OTHER ->
            {<<0, 192, 0, 0, 0, 0, 0, 0>>, <<4, 192, 0, 0, 0, 0, 0, 0>>}

\* region.start.raw_value() as u32 and (region.start.raw_value() >> 32) as u32
LowDword(addr) == SubSeq(addr, 1, 4)
HighDword(addr) == SubSeq(addr, 5, 8)

\* a mutation of AllocError: the error carries no length
AllocError_Zero(region) == Bytes(0, 8)

\* allocate_bars: the length carried by PciDeviceError::IoAllocationFailed
AllocError(region) == region.length

\* allocate_bars, one turn of the loop over the regions up to the first
\* BAR write: the allocator is asked; without an address the call returns
\* IoAllocationFailed(region.length); with one the upper half of a 64-bit
\* BAR, or the only register of another BAR, is written.  After the last
\* region the call returns Ok(ranges).
AllocStep ==
    /\ task.pc = "alloc"
    /\ LastReturned
    /\ IF task.k > Len(task.regions)
       THEN /\ task' = [task EXCEPT !.pc = "returned", !.result = "Ok"]
            /\ UNCHANGED <<calls, caller, reply, hist, cmdq, lane_req, lane_cpl,
                           config_tag, store, bridge, registers, device, mmio_regions,
                           adapter, stops, probe, strays>>
       ELSE \E start \in AllocatorOutcomes(task.regions[task.k]) :
              LET region == task.regions[task.k]
                  wide == region.type_ = "Memory64BitRegion"
                  reg == IF wide THEN region.bar_reg + 1 ELSE region.bar_reg
              IN  IF start = <<>>
                  THEN /\ task' = [task EXCEPT !.pc = "returned",
                                               !.result = "IoAllocationFailed",
                                               !.err_length = AllocError(region)]
                       /\ UNCHANGED <<calls, caller, reply, hist, cmdq, lane_req,
                                      lane_cpl, config_tag, store, bridge, registers,
                                      device, mmio_regions, adapter, stops, probe, strays>>
                  ELSE /\ task' = [task EXCEPT
                                      !.regions[task.k].start = start,
                                      !.pc = IF wide THEN "alloc_low" ELSE "alloc_push",
                                      !.bar_writes = Append(@, [k |-> task.k, reg |-> reg])]
                       /\ config_write_u32(reg, IF wide THEN HighDword(start)
                                                ELSE LowDword(start))
                       /\ UNCHANGED <<probe, strays>>

\* allocate_bars, 64-bit memory BAR: the lower half is written
AllocLow ==
    /\ task.pc = "alloc_low"
    /\ LastReturned
    /\ task' = [task EXCEPT
                   !.pc = "alloc_push",
                   !.bar_writes = Append(@, [k |-> task.k,
                                             reg |-> task.regions[task.k].bar_reg])]
    /\ config_write_u32(task.regions[task.k].bar_reg,
                        LowDword(task.regions[task.k].start))
    /\ UNCHANGED <<probe, strays>>

\* allocate_bars, end of a turn of the loop: ranges.push(..) and
\* self.mmio_regions.push(*region)
AllocPush ==
    /\ task.pc = "alloc_push"
    /\ LastReturned
    /\ task' = [task EXCEPT
                   !.pc = "alloc", !.k = @ + 1,
                   !.ranges = Append(@, <<task.regions[task.k].start,
                                          task.regions[task.k].length,
                                          task.regions[task.k].type_>>)]
    /\ mmio_regions' = Append(mmio_regions, task.regions[task.k])
    /\ UNCHANGED <<calls, caller, reply, hist, cmdq, lane_req, lane_cpl, config_tag,
                   store, bridge, registers, device, adapter, stops, probe, strays>>

\* the device states the calls are made in: BAR registers written before
MaxBarWrites == 1
BarWriteRegs == {4, 5, 6}
\* 0x7000_0000 and 0xffff_ffff
BarWriteValues == {<<0, 0, 0, 112>>, <<255, 255, 255, 255>>}

BarWrite ==
    /\ Len(calls) < MaxBarWrites
    /\ task.op = "idle"
    /\ LastReturned
    /\ \E r \in BarWriteRegs, v \in BarWriteValues : config_write_u32(r, v)
    /\ UNCHANGED <<task, probe, strays>>

NextBars ==
    \/ BarWrite
    \/ \E r \in BarRegs : StartDetect(r)
    \/ DetectStep
    \/ DetectReturn
    \/ StartAllocate
    \/ ScanStep
    \/ AllocStep
    \/ AllocLow
    \/ AllocPush
    \/ \E i \in 1..Len(caller) : CallerRecv(i)
    \/ BridgeRecvCmd
    \/ BridgeRecvLane
    \/ DeviceRecv

SpecBars == Init /\ [][NextBars]_vars

\* C14: for every BAR register index r and every device state, register r
\* of the device holds after detect_bar(r) has returned what it held when
\* detect_bar(r) was called; this also holds for each detect_bar that
\* scan_bar calls.
C14_DetectBarRestores ==
    /\ task.changed = {}
    /\ (task.op = "detect_bar" /\ task.pc = "returned") =>
          read_config_register(registers, task.det_reg) = task.before

\* detect_bar(4) has returned on a device whose BAR0 had been programmed
\* with 0x7000_0000: writing all ones had changed the register meanwhile
C14_Witness ==
    /\ task.op = "detect_bar"
    /\ task.pc = "returned"
    /\ task.det_reg = BAR0_REG
    /\ task.before = <<4, 0, 0, 112>>
    /\ task.ret = <<4, 0, 240, 255>>
    /\ registers[BAR0_REG] = <<4, 0, 0, 112>>


\* the regions found by scan_bar that the loop of allocate_bars has finished
Allocated == SubSeq(task.regions, 1, task.k - 1)

\* C15: when the allocator has no address for the k-th discovered region,
\* allocate_bars returns IoAllocationFailed with the length of that region,
\* no BAR register was written for that region or a later one, and the
\* regions before it, with the addresses assigned to them, are the
\* adapter's region list.
C15_AllocationFailureKeepsEarlier ==
    (task.op = "allocate_bars" /\ task.result = "IoAllocationFailed") =>
        /\ task.k \in 1..Len(task.regions)
        /\ task.err_length = task.regions[task.k].length
        /\ \A w \in 1..Len(task.bar_writes) : task.bar_writes[w].k < task.k
        /\ mmio_regions = Allocated
        /\ \A j \in 1..(task.k - 1) :
              /\ mmio_regions[j].start \in AllocatorOutcomes(task.regions[j]) \ {<<>>}
              /\ \E w \in 1..Len(task.bar_writes) : task.bar_writes[w].k = j

\* the allocator had an address for the 1 MiB memory region and none for the
\* I/O region: the call failed with length 0x100 and the memory region stays
\* registered at 0x1_7000_0000
C15_Witness ==
    /\ task.op = "allocate_bars"
    /\ task.result = "IoAllocationFailed"
    /\ task.k = 2
    /\ task.err_length = <<0, 1, 0, 0, 0, 0, 0, 0>>
    /\ Len(mmio_regions) = 1
    /\ mmio_regions[1].start = <<0, 0, 0, 112, 1, 0, 0, 0>>
    /\ mmio_regions[1].length = <<0, 0, 16, 0, 0, 0, 0, 0>>


\* the address bits of a BAR register: the value without the type bits (the
\* low four bits of a memory BAR, the low two of an I/O BAR)
BarAddressBits(value, type_) ==
    <<BitAnd(value[1], IF type_ = "IoRegion" THEN 252 ELSE 240),
      value[2], value[3], value[4]>>

\* the BAR registers of a region hold its start address
BarHoldsStart(region) ==
    /\ BarAddressBits(read_config_register(registers, region.bar_reg), region.type_)
          = LowDword(region.start)
    /\ region.type_ = "Memory64BitRegion" =>
          read_config_register(registers, region.bar_reg + 1) = HighDword(region.start)

\* C16: after allocate_bars has returned Ok, the address bits of the BAR
\* register(s) of every discovered region are those of the start address
\* assigned to it (bits 31:4 of a memory BAR and 31:2 of an I/O BAR in
\* bar_reg, the high half of a 64-bit region in bar_reg + 1; the low bits
\* of bar_reg keep the type of the BAR), and the adapter's region list is
\* the discovered regions in BAR order with those addresses.
C16_BarsHoldAssignedStart ==
    (task.op = "allocate_bars" /\ task.result = "Ok") =>
        /\ mmio_regions = task.regions
        /\ \A j \in 1..Len(mmio_regions) :
              /\ mmio_regions[j].start # Bytes(0, 8)
              /\ BarHoldsStart(mmio_regions[j])
        /\ \A j \in 1..(Len(mmio_regions) - 1) :
              mmio_regions[j].bar_reg < mmio_regions[j + 1].bar_reg

\* C16 as stated: register bar_reg holds the low 32 bits of the assigned
\* start address as they are, and for a 64-bit region register bar_reg + 1
\* the high 32 bits.
C16_RegistersEqualStart ==
    (task.op = "allocate_bars" /\ task.result = "Ok") =>
        \A j \in 1..Len(mmio_regions) :
            /\ read_config_register(registers, mmio_regions[j].bar_reg)
                  = LowDword(mmio_regions[j].start)
            /\ mmio_regions[j].type_ = "Memory64BitRegion" =>
                  read_config_register(registers, mmio_regions[j].bar_reg + 1)
                      = HighDword(mmio_regions[j].start)

\* allocate_bars has returned Ok with the memory region at 0x1_7000_0010,
\* which is no multiple of its size, and the I/O region at 0xc004: BAR
\* register 4 reads 0x7000_0014, register 5 reads 1, register 6 reads 0xc005
C16_Witness ==
    /\ task.op = "allocate_bars"
    /\ task.result = "Ok"
    /\ Len(mmio_regions) = 2
    /\ mmio_regions[1].start = <<16, 0, 0, 112, 1, 0, 0, 0>>
    /\ mmio_regions[2].start = <<4, 192, 0, 0, 0, 0, 0, 0>>
    /\ registers[4] = <<20, 0, 0, 112>>
    /\ registers[5] = <<1, 0, 0, 0>>
    /\ registers[6] = <<5, 192, 0, 0>>


(***************************************************************************)
(* One caller making config accesses to the reference test device one      *)
(* after the other, as tests::common and tests::bar do.                    *)
(***************************************************************************)
MaxCfgCalls == 4

\* the writes made: register 0 as tests::common writes it, in full and in
\* part, and the BAR registers as tests::bar writes them
CfgWrites ==
    {[reg |-> 0, offset |-> 0, bytes |-> <<34, 34, 17, 17>>],
     [reg |-> 0, offset |-> 0, bytes |-> <<255, 255, 255, 255>>],
     [reg |-> 0, offset |-> 2, bytes |-> <<255, 255>>],
     [reg |-> 4, offset |-> 0, bytes |-> <<255, 255, 255, 255>>],
     [reg |-> 4, offset |-> 0, bytes |-> <<112, 0, 0, 0>>],
     [reg |-> 5, offset |-> 0, bytes |-> <<255, 255, 255, 255>>],
     [reg |-> 6, offset |-> 0, bytes |-> <<0, 255, 0, 0>>]}

CfgReads == {0, 4, 5, 6}

CfgWrite ==
    /\ Len(calls) < MaxCfgCalls
    /\ LastReturned
    /\ \E w \in CfgWrites : config_write(w.reg, w.offset, w.bytes)
    /\ UNCHANGED <<task, probe, strays>>

CfgRead ==
    /\ Len(calls) < MaxCfgCalls
    /\ LastReturned
    /\ \E r \in CfgReads : config_read(r)
    /\ UNCHANGED <<task, probe, strays>>

NextCfg ==
    \/ CfgWrite
    \/ CfgRead
    \/ \E i \in 1..Len(caller) : CallerRecv(i)
    \/ BridgeRecvCmd
    \/ BridgeRecvLane
    \/ DeviceRecv

SpecCfg == Init /\ [][NextCfg]_vars

(***************************************************************************)
(* tests::common continued: config_write(0, 0, 0x11112222) again and       *)
(* again, as many times as the tag counter has values, and a config_read   *)
(* of register 0 after any of them.                                        *)
(***************************************************************************)
Reg0Writes == TagMod - 1

\* only writes so far
OnlyWrites == \A i \in 1..Len(calls) : calls[i].op = "config_write"

Reg0Write ==
    /\ Len(calls) < Reg0Writes
    /\ OnlyWrites
    /\ LastReturned
    /\ config_write(0, 0, <<34, 34, 17, 17>>)
    /\ UNCHANGED <<task, probe, strays>>

Reg0Read ==
    /\ OnlyWrites
    /\ LastReturned
    /\ config_read(0)
    /\ UNCHANGED <<task, probe, strays>>

NextReg0 ==
    \/ Reg0Write
    \/ Reg0Read
    \/ \E i \in 1..Len(caller) : CallerRecv(i)
    \/ BridgeRecvCmd
    \/ BridgeRecvLane
    \/ BridgeDrop
    \/ DeviceRecv
    \/ DeviceRecvClosed

SpecReg0 == Init /\ [][NextReg0]_vars

\* 0x5678_1234
VendorDevice == <<52, 18, 120, 86>>

\* call i is a config_read(0) made after config_write calls to register 0
\* only
ReadAfterReg0Writes(i) ==
    /\ calls[i].op = "config_read"
    /\ calls[i].reg_idx = 0
    /\ \A j \in 1..(i - 1) : calls[j].op = "config_write" /\ calls[j].reg_idx = 0

\* C17: with the reference test device, config_read(0) returns 0x5678_1234
\* after any sequence of config_write calls to register 0: the call does
\* not fail, and the value it returns is 0x5678_1234.
C17_Reg0ReadAfterWrites ==
    \A i \in 1..Len(calls) :
        ReadAfterReg0Writes(i) =>
            /\ caller[i].st \in {"waiting", "returned"}
            /\ caller[i].st = "returned" => caller[i].dword = VendorDevice

\* the value alone: a config_read(0) that returned after config_write calls
\* to register 0, whatever their offsets and lengths, returned 0x5678_1234
C17_Reg0ValueKept ==
    \A i \in 1..Len(calls) :
        (ReadAfterReg0Writes(i) /\ caller[i].st = "returned") =>
            caller[i].dword = VendorDevice


\* call i is the last write to register r made before call n
LastWriteTo(i, r, n) ==
    /\ i < n
    /\ calls[i].op = "config_write"
    /\ calls[i].reg_idx = r
    /\ \A j \in (i + 1)..(n - 1) : ~(calls[j].op = "config_write" /\ calls[j].reg_idx = r)

\* before call n, 0xFFFF_FFFF was written to registers 4 and 5 and
\* 0x0000_FF00 to register 6, and these are the last writes to them
BarsSized(n) ==
    /\ \E i \in 1..(n - 1) : LastWriteTo(i, 4, n) /\ calls[i].bytes = AllOnes
    /\ \E i \in 1..(n - 1) : LastWriteTo(i, 5, n) /\ calls[i].bytes = AllOnes
    /\ \E i \in 1..(n - 1) : LastWriteTo(i, 6, n) /\ calls[i].bytes = <<0, 255, 0, 0>>

\* 0xFFF0_0004, 0xFFFF_FFFF and 0x0000_FF01
SizedValue(r) ==
    CASE r = 4 -> <<4, 0, 240, 255>>
      [] r = 5 -> <<255, 255, 255, 255>>
      [] r = 6 -> <<1, 255, 0, 0>>

\* C18: with the reference test device, after config writes of 0xFFFF_FFFF
\* to registers 4 and 5 and of 0x0000_FF00 to register 6, a config read
\* returns 0xFFF0_0004 for register 4, 0xFFFF_FFFF for register 5 and
\* 0x0000_FF01 for register 6.
C18_SizedBarsReadBack ==
    \A n \in 1..Len(calls) :
        (/\ calls[n].op = "config_read"
         /\ calls[n].reg_idx \in {4, 5, 6}
         /\ caller[n].st = "returned"
         /\ BarsSized(n)) =>
            caller[n].dword = SizedValue(calls[n].reg_idx)

\* the three writes were made and register 6 then read back as 0x0000_FF01
C18_Witness ==
    /\ Len(calls) = 4
    /\ BarsSized(4)
    /\ calls[4].op = "config_read"
    /\ calls[4].reg_idx = 6
    /\ caller[4].st = "returned"
    /\ caller[4].dword = <<1, 255, 0, 0>>
    /\ registers[4] = <<4, 0, 240, 255>>
    /\ registers[5] = <<255, 255, 255, 255>>


\* the payload of a TLP that carries one has as many DWORDs as its header
\* says
PayloadMatchesLength(t) == t.has_data => Len(t.data) = t.length

\* C20: every TLP on either direction of the lane that carries a data
\* payload has a payload of as many DWORDs as its header length field says.
C20_PayloadLengthMatches ==
    /\ \A k \in 1..Len(lane_req) : PayloadMatchesLength(lane_req[k])
    /\ \A k \in 1..Len(lane_cpl) : PayloadMatchesLength(lane_cpl[k])

\* a Config0Write with its DWORD is on its way to the device while the
\* completion of an 8-byte memory read, two DWORDs, is on its way back
C20_Witness ==
    /\ \E k \in 1..Len(lane_req) :
          /\ lane_req[k].type = "Config0Write"
          /\ lane_req[k].has_data
          /\ Len(lane_req[k].data) = 1
    /\ \E k \in 1..Len(lane_cpl) :
          /\ lane_cpl[k].type = "CompletionData"
          /\ lane_cpl[k].has_data
          /\ Len(lane_cpl[k].data) = 2
          /\ lane_cpl[k].length = 2


(***************************************************************************)
(* The pending table (self.store) and the bridge's input handling.         *)
(***************************************************************************)
\* C21: the entry of a completion matched against the pending table is
\* removed: the table holds no entry for the transaction id of a call that
\* has returned with its reply, and it is empty when no request is
\* outstanding.
C21_MatchedEntryRemoved ==
    bridge = "running" =>
        /\ \A i \in 1..Len(calls) :
              (Emitted(i) /\ caller[i].st = "returned") =>
                  hist[i].trans_id \notin DOMAIN store
        /\ (\A i \in 1..Len(calls) : ~Outstanding(i)) => DOMAIN store = {}


\* the kind of Reaction that answers a request TLP
ReactionKindOf(t) ==
    CASE t.type = "Config0Read" -> "ReadConfig"
      [] t.type = "Config0Write" -> "Notify"
      [] OTHER -> "ReadMemory"

\* C22: whenever a request TLP is on its way to the device or being
\* handled by it, the pending table holds an entry under the TLP's
\* transaction id whose reaction is of the kind that answers the request.
C22_RequestHasMatchingEntry ==
    ~BridgeGone =>
        \A k \in 1..Len(lane_req) :
            LET id == lane_req[k].tag + lane_req[k].requester * 65536
            IN  /\ id \in DOMAIN store
                /\ store[id].kind = ReactionKindOf(lane_req[k])


(***************************************************************************)
(* The bridge with a PciSimDevice other than the reference device: one     *)
(* that may answer a request twice, and that may send TLPs no request      *)
(* asked for.                                                              *)
(***************************************************************************)
MaxStrayCalls == 2
MaxStrays == 2

StrayCall ==
    /\ Len(calls) < MaxStrayCalls
    /\ \/ config_read(0)
       \/ config_write(0, 0, <<34, 34, 17, 17>>)
    /\ UNCHANGED <<task, probe, strays>>

\* the device sends its completion twice
DeviceRecvTwice == DeviceRun(2)

\* TLPs the device sends on its own: a Completion without data, a
\* CompletionLocked and a request, with the requester and tag of the
\* bridge's first request; CompletionData with a tag the bridge has not
\* used yet, or with a requester that is not the bridge
StrayTlps ==
    {with_type(ty, BridgeBdf, CompleterBdf, 0, 0, Bytes(0, 8), 0, 0) :
        ty \in {"Completion", "CompletionLocked", "Config0Read"}}
    \cup {data(completion_data(BridgeBdf, CompleterBdf, MaxStrayCalls + 1, 0, 0),
               <<Dword(0)>>),
          data(completion_data(CompleterBdf, CompleterBdf, 0, 0, 0), <<Dword(0)>>)}

\* the TLPs sent on the device's own account that are still on the lane
StraysOnLane == {k \in 1..Len(lane_cpl) : lane_cpl[k].origin = 0}

DeviceSendsStray ==
    /\ device = "running"
    /\ ~BridgeGone
    /\ Len(strays) + Cardinality(StraysOnLane) < MaxStrays
    /\ \E t \in StrayTlps : lane_cpl' = Append(lane_cpl, t)
    /\ UNCHANGED <<calls, caller, reply, hist, cmdq, lane_req, config_tag, store,
                   bridge, registers, device, mmio_regions, adapter, stops, task,
                   probe, strays>>

NextStray ==
    \/ StrayCall
    \/ \E i \in 1..Len(caller) : CallerRecv(i)
    \/ BridgeRecvCmd
    \/ BridgeRecvLane
    \/ BridgeDrop
    \/ DeviceRecv
    \/ DeviceRecvTwice
    \/ DeviceSendsStray
    \/ DeviceRecvClosed

SpecStray == Init /\ [][NextStray]_vars


\* the bridge takes TLP t from the lane in this step
BridgeTakes(t) ==
    /\ bridge = "running"
    /\ lane_cpl # <<>>
    /\ Head(lane_cpl) = t
    /\ lane_cpl' = Tail(lane_cpl)

\* t is a CompletionData for a request whose completion was already
\* delivered to its caller
SecondCompletion(t) ==
    /\ t.type = "CompletionData"
    /\ t.origin # 0
    /\ hist[t.origin].trans_id = t.tag + t.requester * 65536
    /\ hist[t.origin].delivered # <<>>

\* C23: a second CompletionData with the transaction id of a request whose
\* completion was already delivered is dropped silently: no reply channel
\* receives anything and the bridge keeps running.
C23_SecondCompletionDropped ==
    [][\A k \in 1..Len(lane_cpl) :
          (BridgeTakes(lane_cpl[k]) /\ SecondCompletion(lane_cpl[k])) =>
              (reply' = reply /\ bridge' = "running")]_vars

\* C24: a TLP on the bridge's lane that is not a CompletionData is dropped
\* silently: no reply channel receives anything, the pending table and the
\* tag counter stay as they are, and the bridge keeps running.
C24_OtherTypesDropped ==
    [][\A k \in 1..Len(lane_cpl) :
          (BridgeTakes(lane_cpl[k]) /\ lane_cpl[k].type # "CompletionData") =>
              (/\ reply' = reply
               /\ store' = store
               /\ config_tag' = config_tag
               /\ bridge' = "running")]_vars

\* C25: a CompletionData whose tag | (requester << 16) is not a key of the
\* pending table is discarded: no reply channel receives anything, the
\* pending table and the tag counter stay as they are, and the bridge keeps
\* running.
C25_UnknownIdDiscarded ==
    [][\A k \in 1..Len(lane_cpl) :
          (/\ BridgeTakes(lane_cpl[k])
           /\ lane_cpl[k].type = "CompletionData"
           /\ (lane_cpl[k].tag + lane_cpl[k].requester * 65536) \notin DOMAIN store) =>
              (/\ reply' = reply
               /\ store' = store
               /\ config_tag' = config_tag
               /\ bridge' = "running")]_vars

\* the bridge, with the request of id 0x400000 pending, has discarded a
\* CompletionData of the foreign requester 0x60 with the same tag and goes
\* on running
C25_Witness ==
    /\ bridge = "running"
    /\ 4194304 \in DOMAIN store
    /\ \E k \in 1..Len(strays) :
          /\ strays[k].tlp.type = "CompletionData"
          /\ strays[k].tlp.requester = CompleterBdf
          /\ strays[k].tlp.tag = 0
          /\ strays[k].outcome = "dropped"
    /\ \A i \in 1..Len(reply) : reply[i].msgs = <<>> /\ hist[i].delivered = <<>>
    /\ Len(reply) = 1


\* C26: the k-th request handled by the bridge, counting from 0, carries
\* tag k mod 256 and transaction id tag | (bdf << 16) with the bridge's own
\* BDF, and the bridge does not fail when the tag after 255 is allocated.
\* Under SpecWrap the commands are handled in the order of the calls: call
\* i is request i - 1.
C26_TagCountsAndWraps ==
    /\ \A i \in 1..Len(calls) :
          Emitted(i) => hist[i].trans_id = ((i - 1) % 256) + BridgeBdf * 65536
    /\ \A k \in 1..Len(lane_req) :
          /\ lane_req[k].tag = (lane_req[k].origin - 1) % 256
          /\ lane_req[k].requester = BridgeBdf
    /\ bridge \notin {"panicking", "panicked"}


\* the contiguous mask of len bits shifted left by offset
ContiguousMask(len, offset) == ((2 ^ len) - 1) * (2 ^ offset)

\* the DWORD whose bytes offset .. offset + Len(bytes) - 1 are bytes and
\* whose other bytes are 0: the little-endian value shifted by offset * 8
ShiftedValue(bytes, offset) ==
    [b \in 1..4 |-> IF b - offset \in 1..Len(bytes) THEN bytes[b - offset] ELSE 0]

\* call i is a config_write of 1 to 4 bytes that stays within the register
WriteWithinRegister(i) ==
    /\ calls[i].op = "config_write"
    /\ Len(calls[i].bytes) >= 1
    /\ calls[i].offset + Len(calls[i].bytes) <= 4

\* the bridge's half: the byte enable and the data DWORD of the Config0Write
C27_BridgeEncodes ==
    \A k \in 1..Len(lane_req) :
        LET t == lane_req[k]
            c == calls[t.origin]
        IN  (t.type = "Config0Write" /\ WriteWithinRegister(t.origin)) =>
                /\ t.byte_enable = ContiguousMask(Len(c.bytes), c.offset)
                /\ t.data = <<ShiftedValue(c.bytes, c.offset)>>
                /\ t.reg = c.reg_idx

\* C27: for a config_write(reg, offset, bytes) with 1 <= len(bytes) and
\* offset + len(bytes) <= 4 the Config0Write has the contiguous mask of
\* len(bytes) bits shifted by offset as byte enable and the little-endian
\* value shifted by offset * 8 bits as data, and the reference device
\* decodes it to a write on reg with the offset, the length and the bytes
\* the caller passed.
C27_WriteDecodedAsPassed ==
    \A k \in 1..Len(lane_req) :
        LET t == lane_req[k]
            c == calls[t.origin]
        IN  (t.type = "Config0Write" /\ WriteWithinRegister(t.origin)) =>
                /\ t.byte_enable = ContiguousMask(Len(c.bytes), c.offset)
                /\ t.data = <<ShiftedValue(c.bytes, c.offset)>>
                /\ t.reg = c.reg_idx
                /\ DeviceWriteOffset(t) = c.offset
                /\ DeviceWriteLen(t) = Len(c.bytes)
                /\ DeviceWriteData(t) = c.bytes


(***************************************************************************)
(* scan_bar on its own, against a PciSimDevice whose BAR registers read    *)
(* back given values after all ones are written to them: the calls, the    *)
(* bridge and the device run as in SpecBars, access by access.             *)
(***************************************************************************)
\* the values a BAR register reads back after all ones were written: not
\* implemented (0); 1 MiB of 64-bit memory, lower half, not prefetchable
\* (0xfff0_0004) and prefetchable (0xfff0_000c); 1 MiB of 32-bit memory, not
\* prefetchable (0xfff0_0000) and prefetchable (0xfff0_0008); all ones, as
\* the upper half of a 64-bit BAR and as an I/O BAR of 4 bytes whose
\* reserved bits read as 1; an I/O BAR without any address bit (0x1)
SizedValues ==
    {<<0, 0, 0, 0>>, <<4, 0, 240, 255>>, <<12, 0, 240, 255>>, <<0, 0, 240, 255>>,
     <<8, 0, 240, 255>>, <<255, 255, 255, 255>>, <<1, 0, 0, 0>>}

\* the last BAR register: not implemented, or the lower half of a 64-bit
\* memory BAR
SizedLast == {<<0, 0, 0, 0>>, <<4, 0, 240, 255>>}

\* the register after the last BAR, written and read when the last BAR is
\* a 64-bit one
SizedAfterBars == {<<0, 0, 0, 0>>, <<255, 255, 255, 255>>}

\* the registers of the device that scan_bar can reach
ScanRegs == BAR0_REG..(BAR0_REG + NUM_BAR_REGS)

\* the sized values of the registers 4..10: the first three BAR registers
\* take every value, the last is a 64-bit BAR or none, the others are not
\* implemented; the value of register 10 matters only when register 9 reads
\* back as a 64-bit memory BAR
SizedInputs ==
    {[r \in ScanRegs |->
         CASE r = BAR0_REG -> first
           [] r = BAR0_REG + 1 -> second
           [] r = BAR0_REG + 2 -> third
           [] r = BAR0_REG + NUM_BAR_REGS - 1 -> last
           [] r = BAR0_REG + NUM_BAR_REGS -> IF last = Dword(0) THEN Dword(0) ELSE after
           [] OTHER -> Dword(0)] :
        first \in SizedValues, second \in SizedValues, third \in SizedValues,
        last \in SizedLast, after \in SizedAfterBars}

\* the adapter is started with the sized device, its registers all 0
InitScan ==
    /\ StartedWith([r \in {0} \cup ScanRegs |-> Dword(0)])
    /\ probe \in {[sized |-> s] : s \in SizedInputs}

\* scan_bar() is called on its own
StartScan ==
    /\ task.op = "idle"
    /\ LastReturned
    /\ ScanFrom(NewTask("scan_bar"), BAR0_REG, <<>>)

\* run of the sized device: a Config0Read is answered with the register; a
\* Config0Write of all ones leaves the sized value in the register, any
\* other Config0Write its DWORD; each request is answered with a completion
SizedDeviceRecv ==
    /\ device = "running"
    /\ lane_req # <<>>
    /\ lane_req' = Tail(lane_req)
    /\ LET t == Head(lane_req)
       IN  /\ registers' =
                 IF t.type = "Config0Write"
                 THEN [registers EXCEPT ![t.reg] = IF t.data[1] = AllOnes
                                                   THEN probe.sized[t.reg]
                                                   ELSE t.data[1]]
                 ELSE registers
           /\ hist' = [hist EXCEPT
                         ![t.origin].dev_seq = Append(@, DevCount(Len(hist)) + 1),
                         ![t.origin].dev_value = IF t.type = "Config0Read"
                                                 THEN registers[t.reg] ELSE @]
           /\ lane_cpl' = Append(lane_cpl, DeviceCompletion(t))
    /\ UNCHANGED <<task, probe, strays, calls, caller, reply, cmdq, config_tag, store,
                   bridge, device, mmio_regions, adapter, stops>>

NextScan ==
    \/ StartScan
    \/ DetectStep
    \/ ScanStep
    \/ \E i \in 1..Len(caller) : CallerRecv(i)
    \/ BridgeRecvCmd
    \/ BridgeRecvLane
    \/ SizedDeviceRecv

SpecScan == InitScan /\ [][NextScan]_vars

\* scan_bar called on its own is over: it has returned or panicked
ScanBarOver == task.op = "scan_bar" /\ task.pc \in {"returned", "panicked"}


\* bit tests on the sized value of a BAR
SizedIsIo(v) == BitAnd(v[1], 1) = 1
SizedIs64(v) == ~SizedIsIo(v) /\ BitAnd(v[1], 6) = 4
SizedPrefetchable(v) == BitAnd(v[1], 8) = 8

\* register r is the upper half of a 64-bit BAR that starts at r - 1
RECURSIVE UpperHalf(_, _)
UpperHalf(sized, r) ==
    /\ r > BAR0_REG
    /\ sized[r - 1] # Dword(0)
    /\ SizedIs64(sized[r - 1])
    /\ ~UpperHalf(sized, r - 1)

\* the registers scan_bar has to describe
BarStarts(sized) ==
    {r \in BarRegs : sized[r] # Dword(0) /\ ~UpperHalf(sized, r)}

\* C28: scan_bar returns one descriptor for each BAR register in 4..9 whose
\* sized value is not zero and that is not the upper half of a preceding
\* 64-bit BAR, in increasing register order; the type is I/O when bit 0 of
\* the sized value is set, otherwise Memory64 when bits 2:1 are 0b10,
\* otherwise Memory32; slot_mapped is bit 3 for a memory region and false
\* for an I/O region.
C28_ScanBarDescriptors ==
    ScanBarOver =>
        LET found == task.regions
            sized == probe.sized
        IN  /\ task.pc = "returned"
            /\ {found[k].bar_reg : k \in 1..Len(found)} = BarStarts(sized)
            /\ Len(found) = Cardinality(BarStarts(sized))
            /\ \A k \in 1..(Len(found) - 1) : found[k].bar_reg < found[k + 1].bar_reg
            /\ \A k \in 1..Len(found) :
                  LET v == sized[found[k].bar_reg]
                  IN  /\ found[k].type_ =
                            IF SizedIsIo(v) THEN "IoRegion"
                            ELSE IF SizedIs64(v) THEN "Memory64BitRegion"
                            ELSE "Memory32BitRegion"
                      /\ found[k].slot_mapped = (~SizedIsIo(v) /\ SizedPrefetchable(v))

\* the 32-bit value (~(low & 0xFFFF_FFF0)) + 1, widened to 64 bits
Memory32Size(low) ==
    AddBytes(NotBytes(<<BitAnd(low[1], 240), low[2], low[3], low[4]>>), Dword(1))
        \o Dword(0)

\* C29: for a 32-bit memory BAR whose sized value is low, scan_bar reports
\* the length (~(low & 0xFFFF_FFF0)) + 1 computed in 32 bits (0x10_0000 for
\* low = 0xFFF0_0000); the length of a 32-bit memory region is never more
\* than 2^32.
C29_Memory32Length ==
    (ScanBarOver /\ task.pc = "returned") =>
        \A k \in 1..Len(task.regions) :
            task.regions[k].type_ = "Memory32BitRegion" =>
                /\ task.regions[k].length =
                      Memory32Size(probe.sized[task.regions[k].bar_reg])
                /\ SubSeq(task.regions[k].length, 5, 8) = Dword(0)


\* the scan_bar that allocate_bars makes has returned its descriptors
ScanReturned ==
    /\ task.op = "allocate_bars"
    /\ task.pc \in {"alloc", "alloc_low", "alloc_push", "returned"}

\* C30: with the reference test device scan_bar returns exactly two
\* descriptors: a 64-bit memory region at BAR register 4 of length 0x10_0000
\* with slot_mapped false, then an I/O region at BAR register 6 of length
\* 0x100.
C30_ReferenceDeviceScan ==
    ScanReturned =>
        /\ Len(task.regions) = 2
        /\ task.regions[1].type_ = "Memory64BitRegion"
        /\ task.regions[1].bar_reg = 4
        /\ task.regions[1].length = <<0, 0, 16, 0, 0, 0, 0, 0>>
        /\ ~task.regions[1].slot_mapped
        /\ task.regions[2].type_ = "IoRegion"
        /\ task.regions[2].bar_reg = 6
        /\ task.regions[2].length = <<0, 1, 0, 0, 0, 0, 0, 0>>

\* scan_bar has just returned to allocate_bars, on a device one of whose BAR
\* registers had been written before
C30_Witness ==
    /\ ScanReturned
    /\ task.pc = "alloc"
    /\ task.k = 1
    /\ task.regions # <<>>
    /\ calls[1].op = "config_write"


(***************************************************************************)
(* PciAdapter::free_bars (adapter.rs).  It takes the adapter by exclusive  *)
(* reference, so it is called when no other call is in progress.           *)
(***************************************************************************)
MaxFreeCalls == 2
MaxFreeReads == 1

\* the targets the crate is built for: the I/O arm of free_bars frees the
\* range only under cfg(target_arch = "x86_64")
Archs == {"x86_64", "aarch64"}

\* the pool a region of a type is given back to, <<>> when the build gives
\* nothing back for the type
FreePool(type_, arch) ==
    CASE type_ = "IoRegion" ->
            IF arch = "x86_64" THEN <<"io">> ELSE <<>>
      [] type_ = "Memory32BitRegion" -> <<"mmio_hole">>
      [] OTHER -> <<"mmio">>

\* free_bars: for region in self.mmio_regions.iter(), the ranges given back
RECURSIVE FreedRanges(_, _)
FreedRanges(regions, arch) ==
    IF regions = <<>> THEN <<>>
    ELSE [p \in 1..Len(FreePool(Head(regions).type_, arch)) |->
             [pool |-> FreePool(Head(regions).type_, arch)[p],
              start |-> Head(regions).start,
              length |-> Head(regions).length]]
         \o FreedRanges(Tail(regions), arch)

\* free_bars: self.mmio_regions as the call leaves it (it only iterates)
FreeKeepsRegions(regions) == regions

\* free_bars(allocator) is called and returns Ok(())
FreeBars ==
    /\ adapter = "live"
    /\ task.pc \in {"idle", "returned"}
    /\ task.op \in {"idle", "allocate_bars"}
    /\ LastReturned
    /\ task.free_calls < MaxFreeCalls
    /\ \E arch \in Archs :
          /\ task.arch \in {"none", arch}
          /\ task' = [task EXCEPT
                         !.free_calls = @ + 1,
                         !.arch = arch,
                         !.freed = Append(@, [given |-> FreedRanges(mmio_regions, arch),
                                              registered |-> mmio_regions,
                                              left |-> FreeKeepsRegions(mmio_regions)])]
    /\ mmio_regions' = FreeKeepsRegions(mmio_regions)
    /\ UNCHANGED <<calls, caller, reply, hist, cmdq, lane_req, lane_cpl, config_tag,
                   store, bridge, registers, device, adapter, stops, probe, strays>>

\* bar_mmio_read of an address allocate_bars had mapped, after a free_bars
\* that found the regions registered
FreeRead ==
    /\ \E n \in 1..Len(task.freed) : task.freed[n].registered # <<>>
    /\ LastReturned
    /\ Cardinality({i \in 1..Len(calls) : calls[i].op = "bar_mmio_read"}) < MaxFreeReads
    /\ \E k \in 1..Len(task.ranges) : bar_mmio_read(task.ranges[k][1], 4)
    /\ UNCHANGED <<task, probe, strays>>

NextFree ==
    \/ StartAllocate
    \/ DetectStep
    \/ ScanStep
    \/ AllocStep
    \/ AllocLow
    \/ AllocPush
    \/ FreeBars
    \/ FreeRead
    \/ \E i \in 1..Len(caller) : CallerRecv(i)
    \/ BridgeRecvCmd
    \/ BridgeRecvLane
    \/ DeviceRecv

SpecFree == Init /\ [][NextFree]_vars

\* the pool that matches a region type
MatchingPool(type_) ==
    CASE type_ = "IoRegion" -> "io"
      [] type_ = "Memory32BitRegion" -> "mmio_hole"
      [] OTHER -> "mmio"

\* the ranges of the regions registered, each with its matching pool
RegisteredRanges(regions) ==
    {[pool |-> MatchingPool(regions[k].type_),
      start |-> regions[k].start,
      length |-> regions[k].length] : k \in 1..Len(regions)}

\* all the ranges given back so far, call after call
RECURSIVE AllFreed(_)
AllFreed(freed) ==
    IF freed = <<>> THEN <<>> ELSE Head(freed).given \o AllFreed(Tail(freed))

\* C31: free_bars gives the range of each registered region back to the
\* pool of its type and destroys the descriptors: each free_bars leaves the
\* region list empty, no range is ever given back twice (a second
\* free_bars gives nothing back; allocate_bars is called at most once), and
\* a bar_mmio_read of an address that was mapped, made after free_bars, is
\* treated as unmapped (it posts no request).
C31_FreeBarsDestroysRegions ==
    /\ \A n \in 1..Len(task.freed) :
          /\ task.freed[n].left = <<>>
          /\ {task.freed[n].given[k] : k \in 1..Len(task.freed[n].given)}
                = RegisteredRanges(task.freed[n].registered)
    /\ \A a, b \in 1..Len(AllFreed(task.freed)) :
          AllFreed(task.freed)[a] = AllFreed(task.freed)[b] => a = b
    /\ \A i \in 1..Len(calls) : calls[i].op = "bar_mmio_read" => ~hist[i].posts


\* a stop() call has posted Exit to the bridge
StopSent == \E k \in 1..Len(stops) : stops[k] = "sent"

\* C32: after stop() the device thread eventually ends by returning from
\* run (its recv fails once the bridge has dropped the lane), also when a
\* request is with the device, not yet answered, as the bridge exits.
C32_DeviceReturnsAfterStop == StopSent ~> device = "returned"


\* C33: every configuration read and write made during scan_bar is to a
\* register index in 4..=9, whatever the device answers, also when register
\* 9 reads back as a 64-bit memory BAR.
C33_ScanStaysInBarRegisters ==
    task.op = "scan_bar" =>
        \A i \in 1..Len(calls) :
            calls[i].reg_idx \in BAR0_REG..(BAR0_REG + NUM_BAR_REGS - 1)

=============================================================================
